---- MODULE Spec2Model ----
(***************************************************************************)
(* Multi-vendor routing and fallback of tradingagents/dataflows:           *)
(* interface.py (route_to_vendor, get_vendor, the indicator quality gate)  *)
(* and market_utils.py (MarketIdentifier).                                 *)
(*                                                                         *)
(* Strings.  A ticker symbol is a sequence of one-character strings.  A    *)
(* configuration string ("akshare,baostock") is a sequence of atoms: a     *)
(* vendor word, "," or " ".  A vendor name, after split and strip, is the  *)
(* sequence of atoms left; a catalog key k is the one-atom name <<k>>.     *)
(* A text is the sequence of its lines (what split('\n') gives); a line is *)
(* a sequence of atoms: a word, ":" or " ".                                *)
(***************************************************************************)
EXTENDS Integers, Sequences, FiniteSets, TLC

---------------------------------------------------------------------------
(* Generic sequence helpers *)

Range(s) == {s[i] : i \in DOMAIN s}

Contains(s, x) == \E i \in DOMAIN s : s[i] = x

Last(s) == s[Len(s)]

RECURSIVE Flatten(_)
Flatten(ss) == IF ss = <<>> THEN <<>> ELSE Head(ss) \o Flatten(Tail(ss))

---------------------------------------------------------------------------
(* Python str methods on character sequences *)

LowerChars == <<"a","b","c","d","e","f","g","h","i","j","k","l","m",
                "n","o","p","q","r","s","t","u","v","w","x","y","z">>
UpperChars == <<"A","B","C","D","E","F","G","H","I","J","K","L","M",
                "N","O","P","Q","R","S","T","U","V","W","X","Y","Z">>
DigitChars == {"0","1","2","3","4","5","6","7","8","9"}

IsDigit(c) == c \in DigitChars
IsUpperAZ(c) == c \in Range(UpperChars)
IsSpace(c) == c \in {" ", "\t", "\n"}

UpperChar(c) ==
    IF \E i \in DOMAIN LowerChars : LowerChars[i] = c
    THEN UpperChars[CHOOSE i \in DOMAIN LowerChars : LowerChars[i] = c]
    ELSE c

\* str.upper()
StrUpper(s) == [i \in DOMAIN s |-> UpperChar(s[i])]

RECURSIVE LStrip(_)
LStrip(s) == IF s # <<>> /\ IsSpace(Head(s)) THEN LStrip(Tail(s)) ELSE s

RECURSIVE RStrip(_)
RStrip(s) == IF s # <<>> /\ IsSpace(Last(s)) THEN RStrip(SubSeq(s, 1, Len(s) - 1)) ELSE s

\* str.strip()
StrStrip(s) == RStrip(LStrip(s))

\* str.startswith(p) / str.endswith(p)
StartsWith(s, p) == Len(s) >= Len(p) /\ SubSeq(s, 1, Len(p)) = p
EndsWith(s, p) == Len(s) >= Len(p) /\ SubSeq(s, Len(s) - Len(p) + 1, Len(s)) = p

AllDigits(s) == \A i \in DOMAIN s : IsDigit(s[i])
AllUpper(s) == \A i \in DOMAIN s : IsUpperAZ(s[i])

\* str.split(sep) for a one-atom separator: always at least one piece
RECURSIVE SplitOn(_, _)
SplitOn(s, sep) ==
    IF \E i \in DOMAIN s : s[i] = sep
    THEN LET k == CHOOSE i \in DOMAIN s : s[i] = sep /\ \A j \in 1..(i - 1) : s[j] # sep
         IN  <<SubSeq(s, 1, k - 1)>> \o SplitOn(SubSeq(s, k + 1, Len(s)), sep)
    ELSE <<s>>

---------------------------------------------------------------------------
(* market_utils.py : MarketIdentifier *)

\* r'^(000|002|003)\d{3}$', r'^30\d{4}$', r'^60\d{4}$', r'^68\d{4}$',
\* r'^8\d{5}$', r'^4\d{5}$'
A_STOCK_PATTERNS(s) ==
    /\ Len(s) = 6
    /\ AllDigits(s)
    /\ \/ SubSeq(s, 1, 3) \in {<<"0","0","0">>, <<"0","0","2">>, <<"0","0","3">>}
       \/ SubSeq(s, 1, 2) \in {<<"3","0">>, <<"6","0">>, <<"6","8">>}
       \/ s[1] \in {"8", "4"}

\* r'^\d{4,5}\.HK$', r'^\d{4,5}$'
HK_STOCK_PATTERNS(s) ==
    \/ /\ Len(s) \in {7, 8}
       /\ EndsWith(s, <<".", "H", "K">>)
       /\ AllDigits(SubSeq(s, 1, Len(s) - 3))
    \/ /\ Len(s) \in {4, 5}
       /\ AllDigits(s)

\* r'^[A-Z]{1,5}$', r'^[A-Z]+\.[A-Z]+$', r'^\d+\.[A-Z]+$'
US_STOCK_PATTERNS(s) ==
    \/ /\ Len(s) \in 1..5
       /\ AllUpper(s)
    \/ \E k \in DOMAIN s :
          /\ s[k] = "."
          /\ k > 1 /\ k < Len(s)
          /\ AllUpper(SubSeq(s, k + 1, Len(s)))
          /\ \/ AllUpper(SubSeq(s, 1, k - 1))
             \/ AllDigits(SubSeq(s, 1, k - 1))

\* mutant: the loop over US_STOCK_PATTERNS moved before the one over
\* HK_STOCK_PATTERNS
identify_market_USBeforeHK(symbol) ==
    LET s == StrStrip(StrUpper(symbol))
    IN  IF A_STOCK_PATTERNS(s) THEN "A_STOCK"
        ELSE IF US_STOCK_PATTERNS(s) THEN "US_STOCK"
        ELSE IF HK_STOCK_PATTERNS(s) THEN "HK_STOCK"
        ELSE "UNKNOWN"

\* mutant: the upper() of line 45 left out
identify_market_NoUpper(symbol) ==
    LET s == StrStrip(symbol)
    IN  IF A_STOCK_PATTERNS(s) THEN "A_STOCK"
        ELSE IF HK_STOCK_PATTERNS(s) THEN "HK_STOCK"
        ELSE IF US_STOCK_PATTERNS(s) THEN "US_STOCK"
        ELSE "UNKNOWN"

identify_market(symbol) ==
    LET s == StrStrip(StrUpper(symbol))
    IN  IF A_STOCK_PATTERNS(s) THEN "A_STOCK"
        ELSE IF HK_STOCK_PATTERNS(s) THEN "HK_STOCK"
        ELSE IF US_STOCK_PATTERNS(s) THEN "US_STOCK"
        ELSE "UNKNOWN"

\* get_market_info(symbol)['market']
get_market_info(symbol) ==
    [symbol |-> symbol, market |-> identify_market(symbol)]

\* market = None: the market is to be identified
NoneMarket == "None"

\* str.replace(p, '') : every occurrence of p removed, left to right
RECURSIVE RemoveAll(_, _)
RemoveAll(s, p) ==
    IF Len(s) < Len(p) THEN s
    ELSE IF StartsWith(s, p) THEN RemoveAll(SubSeq(s, Len(p) + 1, Len(s)), p)
    ELSE <<Head(s)>> \o RemoveAll(Tail(s), p)

\* str.zfill(width): zeros on the left, after a leading sign
ZFill(s, width) ==
    LET zeros == [i \in 1..(width - Len(s)) |-> "0"]
    IN  IF Len(s) >= width THEN s
        ELSE IF s # <<>> /\ Head(s) \in {"+", "-"}
        THEN <<Head(s)>> \o zeros \o Tail(s)
        ELSE zeros \o s

\* symbol.startswith((p1, p2, ...))
StartsWithAny(s, ps) == \E p \in ps : StartsWith(s, p)

SZPrefixes == {<<"0","0","0">>, <<"0","0","2">>, <<"0","0","3">>, <<"3","0">>}
SHPrefixes == {<<"6","0">>, <<"6","8">>}

\* mutant: line 91 pads the Hong Kong code to six digits
format_symbol_for_vendor_ZFill6(symbol_in, vendor, market_in) ==
    LET market == IF market_in = NoneMarket THEN identify_market(symbol_in)
                  ELSE market_in
        symbol == StrStrip(StrUpper(symbol_in))
    IN  IF vendor = "akshare"
        THEN IF market = "A_STOCK"
             THEN IF StartsWithAny(symbol, {<<"s", "z">>, <<"s", "h">>})
                  THEN SubSeq(symbol, 3, Len(symbol))
                  ELSE symbol
             ELSE IF market = "HK_STOCK"
             THEN ZFill(RemoveAll(symbol, <<".", "H", "K">>), 6)
             ELSE IF market = "US_STOCK" THEN symbol
             ELSE symbol
        ELSE IF vendor = "baostock"
        THEN IF market = "A_STOCK"
             THEN IF StartsWithAny(symbol, SZPrefixes) THEN <<"s", "z", ".">> \o symbol
                  ELSE IF StartsWithAny(symbol, SHPrefixes) THEN <<"s", "h", ".">> \o symbol
                  ELSE symbol
             ELSE symbol
        ELSE IF vendor \in {"yfinance", "alpha_vantage"}
        THEN IF market = "A_STOCK"
             THEN IF StartsWithAny(symbol, SZPrefixes) THEN symbol \o <<".", "S", "Z">>
                  ELSE IF StartsWithAny(symbol, SHPrefixes) THEN symbol \o <<".", "S", "S">>
                  ELSE symbol
             ELSE IF market = "HK_STOCK"
             THEN IF ~EndsWith(symbol, <<".", "H", "K">>)
                  THEN ZFill(symbol, 4) \o <<".", "H", "K">>
                  ELSE symbol
             ELSE IF market = "US_STOCK" THEN symbol
             ELSE symbol
        ELSE symbol

\* mutant: line 119 without the endswith test
format_symbol_for_vendor_AlwaysSuffix(symbol_in, vendor, market_in) ==
    LET market == IF market_in = NoneMarket THEN identify_market(symbol_in)
                  ELSE market_in
        symbol == StrStrip(StrUpper(symbol_in))
    IN  IF vendor = "akshare"
        THEN IF market = "A_STOCK"
             THEN IF StartsWithAny(symbol, {<<"s", "z">>, <<"s", "h">>})
                  THEN SubSeq(symbol, 3, Len(symbol))
                  ELSE symbol
             ELSE IF market = "HK_STOCK"
             THEN ZFill(RemoveAll(symbol, <<".", "H", "K">>), 5)
             ELSE IF market = "US_STOCK" THEN symbol
             ELSE symbol
        ELSE IF vendor = "baostock"
        THEN IF market = "A_STOCK"
             THEN IF StartsWithAny(symbol, SZPrefixes) THEN <<"s", "z", ".">> \o symbol
                  ELSE IF StartsWithAny(symbol, SHPrefixes) THEN <<"s", "h", ".">> \o symbol
                  ELSE symbol
             ELSE symbol
        ELSE IF vendor \in {"yfinance", "alpha_vantage"}
        THEN IF market = "A_STOCK"
             THEN IF StartsWithAny(symbol, SZPrefixes) THEN symbol \o <<".", "S", "Z">>
                  ELSE IF StartsWithAny(symbol, SHPrefixes) THEN symbol \o <<".", "S", "S">>
                  ELSE symbol
             ELSE IF market = "HK_STOCK"
             THEN ZFill(symbol, 4) \o <<".", "H", "K">>
             ELSE IF market = "US_STOCK" THEN symbol
             ELSE symbol
        ELSE symbol

\* mutant: line 108 an `if` that the baostock branch falls into
format_symbol_for_vendor_BaostockFallsInto(symbol_in, vendor, market_in) ==
    LET market == IF market_in = NoneMarket THEN identify_market(symbol_in)
                  ELSE market_in
        symbol == StrStrip(StrUpper(symbol_in))
    IN  IF vendor = "baostock" /\ market = "A_STOCK"
        THEN IF StartsWithAny(symbol, SZPrefixes) THEN <<"s", "z", ".">> \o symbol
             ELSE IF StartsWithAny(symbol, SHPrefixes) THEN <<"s", "h", ".">> \o symbol
             ELSE symbol
        ELSE IF vendor = "akshare" /\ market = "HK_STOCK"
        THEN ZFill(RemoveAll(symbol, <<".", "H", "K">>), 5)
        ELSE IF vendor \in {"baostock", "yfinance", "alpha_vantage"} /\ market = "A_STOCK"
        THEN IF StartsWithAny(symbol, SZPrefixes) THEN symbol \o <<".", "S", "Z">>
             ELSE IF StartsWithAny(symbol, SHPrefixes) THEN symbol \o <<".", "S", "S">>
             ELSE symbol
        ELSE IF vendor \in {"baostock", "yfinance", "alpha_vantage"} /\ market = "HK_STOCK"
        THEN IF ~EndsWith(symbol, <<".", "H", "K">>)
             THEN ZFill(symbol, 4) \o <<".", "H", "K">>
             ELSE symbol
        ELSE symbol

\* format_symbol_for_vendor(symbol, vendor, market)
format_symbol_for_vendor(symbol_in, vendor, market_in) ==
    LET market == IF market_in = NoneMarket THEN identify_market(symbol_in)
                  ELSE market_in
        symbol == StrStrip(StrUpper(symbol_in))
    IN  IF vendor = "akshare"
        THEN IF market = "A_STOCK"
             THEN IF StartsWithAny(symbol, {<<"s", "z">>, <<"s", "h">>})
                  THEN SubSeq(symbol, 3, Len(symbol))
                  ELSE symbol
             ELSE IF market = "HK_STOCK"
             THEN ZFill(RemoveAll(symbol, <<".", "H", "K">>), 5)
             ELSE IF market = "US_STOCK" THEN symbol
             ELSE symbol
        ELSE IF vendor = "baostock"
        THEN IF market = "A_STOCK"
             THEN IF StartsWithAny(symbol, SZPrefixes) THEN <<"s", "z", ".">> \o symbol
                  ELSE IF StartsWithAny(symbol, SHPrefixes) THEN <<"s", "h", ".">> \o symbol
                  ELSE symbol
             ELSE symbol
        ELSE IF vendor \in {"yfinance", "alpha_vantage"}
        THEN IF market = "A_STOCK"
             THEN IF StartsWithAny(symbol, SZPrefixes) THEN symbol \o <<".", "S", "Z">>
                  ELSE IF StartsWithAny(symbol, SHPrefixes) THEN symbol \o <<".", "S", "S">>
                  ELSE symbol
             ELSE IF market = "HK_STOCK"
             THEN IF ~EndsWith(symbol, <<".", "H", "K">>)
                  THEN ZFill(symbol, 4) \o <<".", "H", "K">>
                  ELSE symbol
             ELSE IF market = "US_STOCK" THEN symbol
             ELSE symbol
        ELSE symbol

\* get_supported_markets(vendor): support_map.get(vendor, [])
get_supported_markets(vendor) ==
    CASE vendor = "akshare" -> <<"A_STOCK", "HK_STOCK", "US_STOCK">>
      [] vendor = "baostock" -> <<"A_STOCK">>
      [] vendor = "yfinance" -> <<"A_STOCK", "HK_STOCK", "US_STOCK">>
      [] vendor = "alpha_vantage" -> <<"US_STOCK">>
      [] OTHER -> <<>>

\* is_market_supported(symbol, vendor)
is_market_supported(symbol, vendor) ==
    LET market == identify_market(symbol)
        supported_markets == get_supported_markets(vendor)
    IN  Contains(supported_markets, market)

---------------------------------------------------------------------------
(* interface.py : the Capability Catalog *)

\* TOOLS_CATEGORIES, in dict order: <<category, tools>>
TOOLS_CATEGORIES ==
    << <<"core_stock_apis", <<"get_stock_data">> >>,
       <<"technical_indicators", <<"get_indicators">> >>,
       <<"fundamental_data", <<"get_fundamentals", "get_balance_sheet",
                               "get_cashflow", "get_income_statement">> >>,
       <<"news_data", <<"get_news", "get_global_news",
                        "get_insider_sentiment", "get_insider_transactions">> >>,
       <<"realtime_data", <<"get_realtime_data">> >>,
       <<"dividend_data", <<"get_dividend_data">> >> >>

\* One catalog entry: the vendor key and its implementation, a single callable
\* (list = FALSE) or a list of callables (list = TRUE)
One(v, f) == [vendor |-> <<v>>, list |-> FALSE, impls |-> <<f>>]
Many(v, fs) == [vendor |-> <<v>>, list |-> TRUE, impls |-> fs]

\* VENDOR_METHODS, each method's vendors in dict order
VENDOR_METHODS ==
    [get_stock_data |->
        << One("alpha_vantage", "get_alpha_vantage_stock"),
           One("yfinance", "get_YFin_data_online"),
           One("akshare", "get_akshare_stock_data"),
           One("baostock", "get_baostock_stock_data"),
           One("local", "get_YFin_data") >>,
     get_indicators |->
        << One("alpha_vantage", "get_alpha_vantage_indicator"),
           One("yfinance", "get_stock_stats_indicators_window"),
           One("akshare", "get_akshare_indicators"),
           One("local", "get_stock_stats_indicators_window") >>,
     get_fundamentals |->
        << One("alpha_vantage", "get_alpha_vantage_fundamentals"),
           One("akshare", "get_akshare_company_info"),
           One("baostock", "get_baostock_fundamentals"),
           One("openai", "get_fundamentals_openai") >>,
     get_balance_sheet |->
        << One("alpha_vantage", "get_alpha_vantage_balance_sheet"),
           One("yfinance", "get_yfinance_balance_sheet"),
           One("akshare", "lambda_akshare_balance_sheet"),
           One("baostock", "lambda_baostock_balance_sheet"),
           One("local", "get_simfin_balance_sheet") >>,
     get_cashflow |->
        << One("alpha_vantage", "get_alpha_vantage_cashflow"),
           One("yfinance", "get_yfinance_cashflow"),
           One("akshare", "lambda_akshare_cashflow"),
           One("baostock", "lambda_baostock_cashflow"),
           One("local", "get_simfin_cashflow") >>,
     get_income_statement |->
        << One("alpha_vantage", "get_alpha_vantage_income_statement"),
           One("yfinance", "get_yfinance_income_statement"),
           One("akshare", "lambda_akshare_income_statement"),
           One("baostock", "lambda_baostock_income_statement"),
           One("local", "get_simfin_income_statements") >>,
     get_news |->
        << One("akshare", "get_akshare_stock_news"),
           One("alpha_vantage", "get_alpha_vantage_news"),
           One("openai", "get_stock_news_openai"),
           One("google", "get_google_news"),
           Many("local", <<"get_finnhub_news", "get_reddit_company_news",
                           "get_google_news">>) >>,
     get_global_news |->
        << One("akshare", "get_akshare_global_news"),
           One("openai", "get_global_news_openai"),
           One("local", "get_reddit_global_news") >>,
     get_insider_sentiment |->
        << One("akshare", "get_akshare_market_sentiment"),
           One("local", "get_finnhub_company_insider_sentiment") >>,
     get_insider_transactions |->
        << One("alpha_vantage", "get_alpha_vantage_insider_transactions"),
           One("yfinance", "get_yfinance_insider_transactions"),
           One("local", "get_finnhub_company_insider_transactions") >>,
     get_realtime_data |->
        << One("akshare", "get_akshare_realtime_data") >>,
     get_dividend_data |->
        << One("baostock", "lambda_baostock_dividend_data") >> ]

\* method in VENDOR_METHODS
MethodInCatalog(method) == method \in DOMAIN VENDOR_METHODS

\* list(VENDOR_METHODS[method].keys())
CatalogVendors(method) ==
    [i \in DOMAIN VENDOR_METHODS[method] |-> VENDOR_METHODS[method][i].vendor]

\* vendor in VENDOR_METHODS[method]
VendorRegistered(method, vendor) == Contains(CatalogVendors(method), vendor)

\* VENDOR_METHODS[method][vendor]
VendorImpl(method, vendor) ==
    LET e == VENDOR_METHODS[method]
    IN  e[CHOOSE i \in DOMAIN e : e[i].vendor = vendor]

\* mutant: the raise of line 242 inside the loop, after the first category
get_category_for_method_FirstOnly(method) ==
    IF Contains(TOOLS_CATEGORIES[1][2], method) THEN TOOLS_CATEGORIES[1][1]
    ELSE "ValueError"

\* get_category_for_method: the category, or the ValueError of line 242
NoCategory == "ValueError"

get_category_for_method(method) ==
    IF \E i \in DOMAIN TOOLS_CATEGORIES : Contains(TOOLS_CATEGORIES[i][2], method)
    THEN TOOLS_CATEGORIES[CHOOSE i \in DOMAIN TOOLS_CATEGORIES :
                              /\ Contains(TOOLS_CATEGORIES[i][2], method)
                              /\ \A j \in 1..(i - 1) :
                                    ~Contains(TOOLS_CATEGORIES[j][2], method)][1]
    ELSE NoCategory

---------------------------------------------------------------------------
(* interface.py : Configuration Resolver *)

\* A dict as a function; key in dict / dict.get(key, default)
HasKey(d, k) == k \in DOMAIN d
DictGet(d, k, default) == IF k \in DOMAIN d THEN d[k] ELSE default

\* f"{primary},{fallback}"
JoinComma(a, b) == a \o <<",">> \o b

\* bool(symbol): a symbol that was passed and is not the empty string
Truthy(symbol) == symbol.given /\ symbol.s # <<>>

\* mutant: the category-level entry looked up before the tool-level one
get_vendor_CategoryFirst(cfg, category, method, symbol) ==
    LET market == identify_market(symbol.s)
        e == cfg.market_vendors[market]
        lower == IF category \in DOMAIN cfg.data_vendors
                 THEN cfg.data_vendors[category]
                 ELSE IF method \in DOMAIN cfg.tool_vendors
                 THEN cfg.tool_vendors[method]
                 ELSE <<"default">>
    IN  IF symbol.given /\ symbol.s # <<>> /\ market \in DOMAIN cfg.market_vendors
        THEN IF e.primary # <<>> /\ e.fallback # <<>> THEN e.primary \o <<",">> \o e.fallback
             ELSE IF e.primary # <<>> THEN e.primary
             ELSE IF e.fallback # <<>> THEN e.fallback
             ELSE lower
        ELSE lower

\* get_vendor(category, method, symbol) under configuration cfg: the
\* comma-joined vendor string
get_vendor(cfg, category, method, symbol) ==
    LET market == get_market_info(symbol.s).market
        market_vendors == cfg.market_vendors
        market_config == market_vendors[market]
        primary == market_config.primary
        fallback == market_config.fallback
        tool_vendors == cfg.tool_vendors
        lower == IF HasKey(tool_vendors, method)
                 THEN tool_vendors[method]
                 ELSE DictGet(cfg.data_vendors, category, <<"default">>)
    IN  IF Truthy(symbol) /\ HasKey(market_vendors, market)
        THEN IF primary # <<>> /\ fallback # <<>> THEN JoinComma(primary, fallback)
             ELSE IF primary # <<>> THEN primary
             ELSE IF fallback # <<>> THEN fallback
             ELSE lower
        ELSE lower

\* [v.strip() for v in vendor_config.split(',')]
SplitVendors(vendor_config) ==
    LET pieces == SplitOn(vendor_config, ",")
    IN  [i \in DOMAIN pieces |-> StrStrip(pieces[i])]

\* symbol and get_market_info(symbol)['market'] in market_vendors
MarketScoped(cfg, symbol) ==
    Truthy(symbol) /\ HasKey(cfg.market_vendors, get_market_info(symbol.s).market)

\* mutant: the catalog vendors appended without the test of line 312
AppendMissing_NoTest(plan, more) == plan \o more

\* the loop of lines 311-313: append the catalog vendors not yet present
RECURSIVE AppendMissing(_, _)
AppendMissing(plan, more) ==
    IF more = <<>> THEN plan
    ELSE AppendMissing(IF Contains(plan, Head(more)) THEN plan
                       ELSE Append(plan, Head(more)),
                       Tail(more))

\* fallback_vendors of route_to_vendor
BuildPlan(cfg, method, symbol, primary_vendors) ==
    IF MarketScoped(cfg, symbol)
    THEN primary_vendors
    ELSE AppendMissing(primary_vendors, CatalogVendors(method))

---------------------------------------------------------------------------
(* interface.py : the indicator data-quality gate *)

\* Atoms of a line and what Python's len, str.lower, datetime.strptime and
\* float make of them.
DateAtom == "2024-01-02"
BadDateAtom == "2024-02-30"
ShortDateAtom == "2024-1-2"
HeaderAtom == "## macd values from 2024-01-01 to 2024-01-10"

AtomLen(a) ==
    CASE a \in {DateAtom, BadDateAtom} -> 10
      [] a = ShortDateAtom -> 8
      [] a \in {":", " "} -> 1
      [] OTHER -> 44

\* datetime.strptime(date_part, '%Y-%m-%d') does not raise
ParsesAsDate(part) == Len(part) = 1 /\ part[1] \in {DateAtom, ShortDateAtom}

RECURSIVE CharLen(_)
CharLen(part) == IF part = <<>> THEN 0 ELSE AtomLen(Head(part)) + CharLen(Tail(part))

\* the atoms whose lower-cased text contains one of the keywords of lines
\* 82-83: 'n/a', 'not a trading day', 'weekend', 'holiday', 'invalid',
\* 'no data', 'error', 'failed', ...
KeywordAtoms == {"N/A", "Not a trading day (weekend or holiday)", "Holiday",
                 "invalid", "No data", "ERROR", "failed"}

\* float(value_part) does not raise
FloatAtoms == {"12.5", "-3", "0", "1e5", "nan"}

\* ':' in line
HasColon(line) == Contains(line, ":")

\* line.split(':')[0].strip()
DatePart(line) == StrStrip(SplitOn(line, ":")[1])

\* ':'.join(line.split(':')[1:]).strip()
ValuePart(line) ==
    LET k == CHOOSE i \in DOMAIN line : line[i] = ":" /\ \A j \in 1..(i - 1) : line[j] # ":"
    IN  StrStrip(SubSeq(line, k + 1, Len(line)))

\* lines 71-77: the line counts as a date line
IsDateLine(raw) ==
    LET line == StrStrip(raw)
    IN  /\ HasColon(line)
        /\ CharLen(DatePart(line)) = 10
        /\ ParsesAsDate(DatePart(line))

\* lines 80-92: the date line counts as valid data
IsValidLine(raw) ==
    LET line == StrStrip(raw)
        value_part == ValuePart(line)
    IN  /\ IsDateLine(raw)
        /\ ~(\E i \in DOMAIN value_part : value_part[i] \in KeywordAtoms)
        /\ \/ Len(value_part) = 1 /\ value_part[1] \in FloatAtoms
           \/ value_part # <<>>

RECURSIVE date_line_count(_)
date_line_count(lines) ==
    IF lines = <<>> THEN 0
    ELSE (IF IsDateLine(Head(lines)) THEN 1 ELSE 0) + date_line_count(Tail(lines))

RECURSIVE valid_data_count(_)
valid_data_count(lines) ==
    IF lines = <<>> THEN 0
    ELSE (IF IsValidLine(Head(lines)) THEN 1 ELSE 0) + valid_data_count(Tail(lines))

\* the empty string: split('\n') gives one empty line
EmptyText == << <<>> >>

\* mutant: the threshold compared with <= instead of <
RatioTooLow_Inclusive(valid, dates) == valid * 10 <= 3 * dates

\* valid_ratio < 0.3, on the integer counts (the float quotient of two
\* counts this small compares with 0.3 as the exact ratio does)
RatioTooLow(valid, dates) == valid * 10 < 3 * dates

\* _is_indicator_result_invalid(result_content), result_content a str
is_indicator_result_invalid(lines) ==
    IF lines = EmptyText THEN TRUE
    ELSE IF date_line_count(lines) = 0 THEN TRUE
    ELSE RatioTooLow(valid_data_count(lines), date_line_count(lines))

---------------------------------------------------------------------------
(* Values an adapter returns, and what it raises *)

\* A str value, or a native (non-str) value with its str() form
StrValue(lines) == [kind |-> "str", text |-> lines]
NativeValue(lines) == [kind |-> "native", text |-> lines]
NoValue == [kind |-> "none", text |-> <<>>]

\* str(value)
PyStr(v) == v.text

\* '\n'.join(str(result) for result in results)
JoinNewline(values) ==
    StrValue(Flatten([i \in DOMAIN values |-> PyStr(values[i])]))

NumLine == <<DateAtom, ":", " ", "12.5">>
TextLine == <<DateAtom, ":", " ", "bullish">>
HolidayLine == <<DateAtom, ":", " ", "N/A", ":", " ",
                 "Not a trading day (weekend or holiday)">>
EmptyValueLine == <<DateAtom, ":">>
HeaderLine == <<HeaderAtom, ":">>
BadDateLine == <<BadDateAtom, ":", " ", "12.5">>
ShortDateLine == <<ShortDateAtom, ":", " ", "12.5">>
PlainLine == <<"ok">>

RECURSIVE Repeat(_, _)
Repeat(line, n) == IF n = 0 THEN <<>> ELSE <<line>> \o Repeat(line, n - 1)

\* an indicator report: a header, then valid and holiday date lines
MixedText(valid, holiday) ==
    <<HeaderLine>> \o Repeat(NumLine, valid) \o Repeat(HolidayLine, holiday)

\* The exceptions an adapter raises, one per handler branch of lines 360-382
Exceptions ==
    { [type |-> "AlphaVantageRateLimitError", msg |-> "rate limit exceeded"],
      [type |-> "ConnectionError", msg |-> "reset by peer"],
      [type |-> "TimeoutError", msg |-> "timed out"],
      [type |-> "Exception", msg |-> "Remote end closed connection"],
      [type |-> "KeyError", msg |-> "close"] }

\* messages whose lower-cased text contains 'connection', 'network',
\* 'timeout', 'remote' or 'aborted' (line 375)
NetworkKeywordMsgs == {"Remote end closed connection"}

\* which handler of lines 360-382 takes the exception
Classify(e) ==
    IF e.type = "AlphaVantageRateLimitError" THEN "rate_limit"
    ELSE IF e.type \in {"ConnectionError", "ConnectionAbortedError",
                        "ConnectionResetError", "TimeoutError"} THEN "network"
    ELSE IF e.msg \in NetworkKeywordMsgs THEN "network"
    ELSE "other"

---------------------------------------------------------------------------
(* web/backend/app_v2.py : TaskManager *)

\* max_workers of the manager the model constructs
MaxWorkers == 2

\* threads: none, the event loop (the request handlers and task_monitor are
\* coroutines of it), and the pool thread that runs a task
NoThread == <<>>
LoopThread == <<0, 0>>
WorkerThread(analysis_id) == analysis_id

\* users, and the analysis ids start_analysis makes for them: line 53 of
\* analysis_routes.py ends the id with the user's id
TaskUsers == 1..(MaxWorkers + 1)
AnalysisIds == {<<u, 1>> : u \in TaskUsers} \cup {<<1, 2>>}
Owner(analysis_id) == analysis_id[1]

\* d[k] = v and del d[k]
DictSet(d, k, v) == (k :> v) @@ d
DictDel(d, k) == [x \in DOMAIN d \ {k} |-> d[x]]

\* consecutive checks without a log line after which a task is interrupted
StallLimit == 5

\* TaskManager.__init__; executor holds the futures of the submitted tasks,
\* task_last_log_time the ids that have a time
TaskManager(max_workers) ==
    [max_workers |-> max_workers,
     executor |-> <<>>,
     active_tasks |-> <<>>,
     task_queue |-> <<>>,
     running_count |-> 0,
     lock |-> NoThread,
     user_running_tasks |-> <<>>,
     user_task_queues |-> <<>>,
     task_last_log_time |-> {},
     task_no_log_count |-> <<>>]

\* threading.Lock(), line 249, is not reentrant: `with self.lock` goes on only
\* while no thread, the caller included, holds the lock
CanAcquire(tm, thread) == tm.lock = NoThread

\* the handler reached the end of its `with self.lock`
Released(tm, started) ==
    [tm |-> [tm EXCEPT !.lock = NoThread], blocked |-> "", started |-> started]

\* the thread stays at the `with self.lock` of `callee`, keeping what it holds
BlockedAt(tm, callee, started) ==
    [tm |-> tm, blocked |-> callee, started |-> started]

\* any(item and item[0] == analysis_id for item in items)
InQueue(items, analysis_id) ==
    \E i \in DOMAIN items : items[i].analysis_id = analysis_id

\* submit_task lines 260-281: the id is running, in the global queue or in
\* the user's queue
AlreadySubmitted(tm, analysis_id, user_id) ==
    \/ analysis_id \in DOMAIN tm.active_tasks
    \/ InQueue(tm.task_queue, analysis_id)
    \/ /\ user_id \in DOMAIN tm.user_task_queues
       /\ InQueue(tm.user_task_queues[user_id], analysis_id)

\* mutant: line 284 never true
UserBusy_Never(tm, user_id) == FALSE

\* submit_task line 284
UserBusy(tm, user_id) == user_id \in DOMAIN tm.user_running_tasks

\* mutant: line 308 left out
CountStarted_Forgotten(running_count) == running_count

\* _start_task line 308
CountStarted(running_count) == running_count + 1

\* _start_task lines 304-317; done_early: the task has finished by the time
\* line 318 registers the callback
_start_task(tm, analysis_id, user_id, done_early) ==
    [tm EXCEPT !.active_tasks = DictSet(@, analysis_id, FALSE),
               !.user_running_tasks = DictSet(@, user_id, analysis_id),
               !.running_count = CountStarted(@),
               !.task_last_log_time = @ \cup {analysis_id},
               !.task_no_log_count = DictSet(@, analysis_id, 0),
               !.executor = DictSet(@, analysis_id,
                                IF done_early THEN "finished" ELSE "running")]

\* _start_task line 318, reached inside the caller's `with self.lock`:
\* add_done_callback of a finished future calls _task_completed at once, in
\* the registering thread
AfterStart(tm, thread, analysis_id, via, done_early) ==
    IF done_early /\ ~CanAcquire(tm, thread)
    THEN BlockedAt(tm, "_task_completed", (analysis_id :> via))
    ELSE Released(tm, (analysis_id :> via))

\* submit_task, entered by `thread`
submit_task(tm0, thread, analysis_id, user_id, done_early) ==
    LET tm == [tm0 EXCEPT !.lock = thread]
        user_q_items == DictGet(tm.user_task_queues, user_id, <<>>)
    IN  IF AlreadySubmitted(tm, analysis_id, user_id)
        THEN Released(tm, <<>>)
        ELSE IF UserBusy(tm, user_id)
        THEN Released([tm EXCEPT !.user_task_queues =
                          DictSet(@, user_id,
                              Append(user_q_items, [analysis_id |-> analysis_id]))],
                      <<>>)
        ELSE IF tm.running_count >= tm.max_workers
        THEN Released([tm EXCEPT !.task_queue =
                          Append(@, [analysis_id |-> analysis_id,
                                     user_id |-> user_id])],
                      <<>>)
        ELSE AfterStart(_start_task(tm, analysis_id, user_id, done_early),
                        thread, analysis_id, "submit_task", done_early)

\* _task_completed, entered by `thread`
_task_completed(tm0, thread, analysis_id, user_id, done_early) ==
    LET tm1 == [tm0 EXCEPT !.lock = thread,
                           !.active_tasks = DictDel(@, analysis_id),
                           !.user_running_tasks = DictDel(@, user_id),
                           !.task_last_log_time = @ \ {analysis_id},
                           !.task_no_log_count = DictDel(@, analysis_id),
                           !.running_count = @ - 1,
                           !.executor = DictDel(@, analysis_id)]
        user_q == DictGet(tm1.user_task_queues, user_id, <<>>)
    IN  IF user_id \in DOMAIN tm1.user_task_queues /\ user_q # <<>>
        THEN LET queued_id == Head(user_q).analysis_id
                 tm2 == [tm1 EXCEPT !.user_task_queues[user_id] = Tail(@)]
             IN  AfterStart(_start_task(tm2, queued_id, user_id, done_early),
                            thread, queued_id, "user_queue", done_early)
        ELSE IF tm1.task_queue # <<>>
        THEN LET item == Head(tm1.task_queue)
                 tm2 == [tm1 EXCEPT !.task_queue = Tail(@)]
             IN  IF CanAcquire(tm2, thread)
                 THEN submit_task(tm2, thread, item.analysis_id, item.user_id,
                                  done_early)
                 ELSE BlockedAt(tm2, "submit_task", <<>>)
        ELSE Released(tm1, <<>>)

\* update_task_log_time
update_task_log_time(tm, analysis_id) ==
    IF analysis_id \in tm.task_last_log_time
    THEN [tm EXCEPT !.task_no_log_count = DictSet(@, analysis_id, 0)]
    ELSE tm

\* check_stalled_tasks; late: the ids whose last log is more than 60 seconds old
check_stalled_tasks(tm, late) ==
    LET counted == [a \in DOMAIN tm.task_no_log_count \cup late |->
                       IF a \in late
                       THEN DictGet(tm.task_no_log_count, a, 0) + 1
                       ELSE tm.task_no_log_count[a]]
        stalled_tasks == {a \in late : counted[a] >= StallLimit}
        interrupted == stalled_tasks \cap DOMAIN tm.active_tasks
    IN  [tm EXCEPT !.active_tasks = [a \in DOMAIN @ |-> @[a] \/ a \in interrupted],
                   !.task_no_log_count =
                       [a \in DOMAIN counted \ interrupted |-> counted[a]]]

\* stop_task
stop_task(tm, analysis_id) ==
    IF analysis_id \in DOMAIN tm.active_tasks
    THEN [tm EXCEPT !.active_tasks[analysis_id] = TRUE]
    ELSE tm

\* get_status
get_status(tm) ==
    [running |-> tm.running_count,
     max_workers |-> tm.max_workers,
     queued |-> Len(tm.task_queue),
     active_tasks |-> DOMAIN tm.active_tasks,
     user_running_tasks |-> tm.user_running_tasks]

---------------------------------------------------------------------------
(* State *)

VARIABLES
    config,                        \* get_config(): the process-wide configuration
    pc,                            \* "idle", "invoke" (at line 356) or "done"
    call,                          \* method, args and kwargs of the call
    symbol,                        \* the symbol extracted at lines 284-291
    primary_vendors,               \* line 296
    fallback_vendors,              \* lines 303-313: the plan
    idx,                           \* position of `vendor` in fallback_vendors
    impl_idx,                      \* position of impl_func in vendor_methods
    vendor_results,                \* line 352
    results,                       \* line 321
    vendor_attempt_count,          \* line 322
    any_primary_vendor_attempted,  \* line 323
    successful_vendor,             \* line 324
    outcome,                       \* what the call gave its caller
    invoked,                       \* history: every adapter invocation
    accepted,                      \* history: every vendor accepted (line 400)
    rejected,                      \* history: plan positions the gate rejected
    gate_text,                     \* the text handed to the quality gate
    gate_result,                   \* what the gate said of it
    other,                         \* the frame of a second, concurrent call
    m_op,                          \* the MarketIdentifier method applied
    m_symbol,                      \* its symbol argument
    m_vendor,                      \* its vendor argument
    m_market,                      \* its market argument
    m_result,                      \* what it returned
    task_manager,                  \* app_v2.py line 419: the TaskManager
    waiting,                       \* threads that stay at a `with self.lock`
    started_from                   \* history: what started each running task

callVars == <<call, symbol, primary_vendors, fallback_vendors>>
loopVars == <<idx, impl_idx, vendor_results, results, vendor_attempt_count,
              any_primary_vendor_attempted, successful_vendor,
              outcome, invoked, accepted, rejected>>
gateVars == <<gate_text, gate_result>>
marketVars == <<m_op, m_symbol, m_vendor, m_market, m_result>>
taskVars == <<task_manager, waiting, started_from>>
vars == <<config, pc, callVars, loopVars, gateVars, other, marketVars, taskVars>>

---------------------------------------------------------------------------
(* Inputs: configurations *)

Primary(p, f) == [primary |-> p, fallback |-> f]

EmptyDict == [k \in {} |-> <<>>]

\* default_config.py, lines 36-49
DefaultMarketVendors ==
    ("A_STOCK" :> Primary(<<"akshare">>, <<"baostock", ",", "yfinance">>)) @@
    ("HK_STOCK" :> Primary(<<"akshare">>, <<"yfinance">>)) @@
    ("US_STOCK" :> Primary(<<"akshare">>, <<"yfinance", ",", "alpha_vantage">>))

\* default_config.py, lines 29-34
DefaultToolVendors ==
    ("get_stock_data" :> <<"akshare">>) @@
    ("get_indicators" :> <<"yfinance", ",", "akshare">>) @@
    ("get_global_news" :> <<"openai", ",", "akshare">>) @@
    ("get_news" :> <<"akshare", ",", "openai">>)

\* default_config.py, lines 22-27
DefaultDataVendors ==
    ("core_stock_apis" :> <<"akshare">>) @@
    ("technical_indicators" :> <<"akshare">>) @@
    ("fundamental_data" :> <<"akshare">>) @@
    ("news_data" :> <<"akshare">>)

\* market entries with an empty part, with both parts empty, with a vendor
\* no method of the stock category registers, and with a repeated vendor
EdgeMarketVendors ==
    ("A_STOCK" :> Primary(<<>>, <<"openai", ",", " ", "akshare", ",", "google">>)) @@
    ("HK_STOCK" :> Primary(<<"google">>, <<>>)) @@
    ("US_STOCK" :> Primary(<<>>, <<>>)) @@
    ("UNKNOWN" :> Primary(<<"local">>, <<"openai", ",", "local">>))

EdgeToolVendors ==
    ("get_stock_data" :> <<"google">>) @@
    ("get_indicators" :> <<"local", " ", ",", "yfinance">>) @@
    ("get_news" :> <<"local", ",", "google", ",", "akshare">>) @@
    ("get_cashflow" :> <<>>)

EdgeDataVendors ==
    ("fundamental_data" :> <<"openai", ",", "yfinance", ",", "baostock">>) @@
    ("news_data" :> <<"local", ",", "local">>)

Config(mv, tv, dv) == [market_vendors |-> mv, tool_vendors |-> tv, data_vendors |-> dv]

Configs ==
    { Config(DefaultMarketVendors, DefaultToolVendors, DefaultDataVendors),
      Config(EmptyDict, DefaultToolVendors, DefaultDataVendors),
      Config(EmptyDict, EmptyDict, EmptyDict),
      Config(EdgeMarketVendors, EdgeToolVendors, EdgeDataVendors),
      Config(EdgeMarketVendors, EmptyDict, DefaultDataVendors),
      Config(EmptyDict, EdgeToolVendors, EdgeDataVendors) }

---------------------------------------------------------------------------
(* Inputs: calls *)

Methods == DOMAIN VENDOR_METHODS \cup {"get_quote"}

Symbols ==
    { <<"6","0","0","5","1","9">>,          \* A_STOCK
      <<"0","7","0","0",".","H","K">>,      \* HK_STOCK
      <<"a","a","p","l"," ">>,              \* US_STOCK after upper and strip
      <<"2","0","2","4","-","0","5">>,      \* UNKNOWN
      <<>> }                                \* the empty string

Args ==
    { [args |-> <<s>>, kwargs |-> <<>>] : s \in Symbols } \cup
    { [args |-> <<>>, kwargs |-> <<>>],
      [args |-> <<>>, kwargs |-> << <<"symbol", <<"A","A","P","L">> >> >>],
      [args |-> <<>>, kwargs |-> << <<"curr_date", <<"2","0","2","4">> >>,
                                    <<"ticker", <<"0","7","0","0">> >> >>] }

KwHas(kwargs, key) == \E i \in DOMAIN kwargs : kwargs[i][1] = key
KwGet(kwargs, key) == kwargs[CHOOSE i \in DOMAIN kwargs : kwargs[i][1] = key][2]

\* lines 284-291; given = FALSE is None
ExtractSymbol(a) ==
    IF a.args # <<>> THEN [given |-> TRUE, s |-> a.args[1]]
    ELSE IF KwHas(a.kwargs, "symbol") THEN [given |-> TRUE, s |-> KwGet(a.kwargs, "symbol")]
    ELSE IF KwHas(a.kwargs, "ticker") THEN [given |-> TRUE, s |-> KwGet(a.kwargs, "ticker")]
    ELSE [given |-> FALSE, s |-> <<>>]

\* what an adapter of the method can return
NativeImpls == {"get_YFin_data_online", "get_akshare_stock_data",
                "get_akshare_indicators", "get_stock_news_openai"}

ReturnValues(method, impl) ==
    IF method = "get_indicators"
    THEN {StrValue(MixedText(2, 8)), StrValue(MixedText(3, 7))} \cup
         (IF impl \in NativeImpls THEN {NativeValue(MixedText(4, 6))} ELSE {})
    ELSE {StrValue(<< <<impl>> >>)} \cup
         (IF impl \in NativeImpls THEN {NativeValue(<< <<impl>>, <<"rows">> >>)} ELSE {})

---------------------------------------------------------------------------
(* interface.py : route_to_vendor, the Fallback Executor *)

NoVendor == <<"None">>
NoSymbol == [given |-> FALSE, s |-> <<>>]
NoError == [type |-> "none", method |-> "", msg |-> <<>>]

\* the message of the exception, an f-string around the method name: line
\* 423 for the RuntimeError, line 242 for the ValueError
ErrorMessage(type, method) ==
    IF type = "RuntimeError"
    THEN <<"All vendor implementations failed for method '", method, "'">>
    ELSE <<"Method '", method, "' not found in any category">>
NoOutcome == [kind |-> "none", value |-> NoValue, error |-> NoError]

Raised(type, method) ==
    [kind |-> "raise", value |-> NoValue,
     error |-> [type |-> type, method |-> method, msg |-> ErrorMessage(type, method)]]

\* mutant: no raise at line 423, the empty join returned instead
FinalResult_NeverRaises(method, res) ==
    [kind |-> "return",
     value |-> IF Len(res) = 1 THEN res[1] ELSE JoinNewline(res),
     error |-> NoError]

\* mutant: the results always joined, also a single one
FinalResult_AlwaysJoins(method, res) ==
    IF res = <<>> THEN Raised("RuntimeError", method)
    ELSE [kind |-> "return", value |-> JoinNewline(res), error |-> NoError]

\* lines 420-432: the RuntimeError naming the method, the single result, or
\* the results joined
FinalResult(method, res) ==
    IF res = <<>> THEN Raised("RuntimeError", method)
    ELSE [kind |-> "return",
          value |-> IF Len(res) = 1 THEN res[1] ELSE JoinNewline(res),
          error |-> NoError]

\* mutant: the break of line 416 taken after every accepted vendor
stop_after_first_success_Always(prim, method) == TRUE

\* mutant: line 411 dropped, only single-vendor configurations stop
stop_after_first_success_SingleVendorOnly(prim, method) == Len(prim) = 1

\* mutant: get_stock_data missing from the list of line 411
stop_after_first_success_IndicatorsOnly(prim, method) ==
    Len(prim) = 1 \/ method \in {"get_indicators"}

\* lines 409-412
stop_after_first_success(prim, method) ==
    Len(prim) = 1 \/ method \in {"get_indicators", "get_stock_data"}

\* mutant: the gate of lines 388-392 never asked
should_fallback_due_to_invalid_data_Never(method, vr) == FALSE

\* lines 387-392
should_fallback_due_to_invalid_data(method, vr) ==
    /\ method = "get_indicators"
    /\ Len(vr) = 1
    /\ is_indicator_result_invalid(PyStr(vr[1]))

\* mutant: the plan walked from its end, the last registered vendor first
NextRegistered_Last(method, plan, from) ==
    IF \E i \in from..Len(plan) : VendorRegistered(method, plan[i])
    THEN CHOOSE i \in from..Len(plan) :
            /\ VendorRegistered(method, plan[i])
            /\ \A j \in (i + 1)..Len(plan) : ~VendorRegistered(method, plan[j])
    ELSE Len(plan) + 1

\* mutant: a vendor get_supported_markets knows no market for is skipped too
NextRegistered_SkipsUnsupported(method, plan, from) ==
    LET Served(i) == /\ VendorRegistered(method, plan[i])
                     /\ Len(plan[i]) = 1
                     /\ get_supported_markets(plan[i][1]) # <<>>
    IN  IF \E i \in from..Len(plan) : Served(i)
        THEN CHOOSE i \in from..Len(plan) :
                Served(i) /\ \A j \in from..(i - 1) : ~Served(j)
        ELSE Len(plan) + 1

\* lines 326-330: the first position from `from` on whose vendor is registered
\* for the method, Len(plan) + 1 when the loop runs out
NextRegistered(method, plan, from) ==
    IF \E i \in from..Len(plan) : VendorRegistered(method, plan[i])
    THEN CHOOSE i \in from..Len(plan) :
            /\ VendorRegistered(method, plan[i])
            /\ \A j \in from..(i - 1) : ~VendorRegistered(method, plan[j])
    ELSE Len(plan) + 1

SetLoop(pc2, idx2, impl2, vr2, res2, cnt2, any2, succ2, out2, acc2, rej2) ==
    /\ pc' = pc2
    /\ idx' = idx2
    /\ impl_idx' = impl2
    /\ vendor_results' = vr2
    /\ results' = res2
    /\ vendor_attempt_count' = cnt2
    /\ any_primary_vendor_attempted' = any2
    /\ successful_vendor' = succ2
    /\ outcome' = out2
    /\ accepted' = acc2
    /\ rejected' = rej2

\* mutant: line 334 moved above the test of line 327, skipped vendors counted
Enter_CountsSkipped(method, prim, plan, from, res, cnt, anyp, succ, acc, rej) ==
    LET j == NextRegistered(method, plan, from)
    IN  IF j > Len(plan)
        THEN SetLoop("done", j, 0, <<>>, res, cnt + (Len(plan) + 1 - from), anyp, succ,
                     FinalResult(method, res), acc, rej)
        ELSE SetLoop("invoke", j, 1, <<>>, res, cnt + (j + 1 - from),
                     anyp \/ Contains(prim, plan[j]), succ, NoOutcome, acc, rej)

\* lines 326-349: go on with the loop from position `from` up to the next
\* invocation of line 356, or leave the loop and finish (lines 420-432)
Enter(method, prim, plan, from, res, cnt, anyp, succ, acc, rej) ==
    LET j == NextRegistered(method, plan, from)
    IN  IF j > Len(plan)
        THEN SetLoop("done", j, 0, <<>>, res, cnt, anyp, succ,
                     FinalResult(method, res), acc, rej)
        ELSE SetLoop("invoke", j, 1, <<>>, res, cnt + 1,
                     anyp \/ Contains(prim, plan[j]), succ, NoOutcome, acc, rej)

\* mutant: line 277 written with setdefault, the "default" stored
ConfigAfterLookup_SetDefault(cfg, category, method) ==
    IF category = NoCategory \/ category \in DOMAIN cfg.data_vendors THEN cfg
    ELSE [cfg EXCEPT !.data_vendors = (category :> <<"default">>) @@ cfg.data_vendors]

\* the configuration after get_vendor and route_to_vendor looked it up:
\* every access is a dict.get or an `in`, and nothing is stored
ConfigAfterLookup(cfg, category, method) == cfg

\* lines 279-349: from the call to the first adapter invocation
Call(m, a) ==
    /\ pc = "idle"
    /\ call' = [method |-> m, args |-> a.args, kwargs |-> a.kwargs]
    /\ invoked' = <<>>
    /\ config' = ConfigAfterLookup(config, get_category_for_method(m), m)
    /\ UNCHANGED <<gateVars, taskVars, other, marketVars>>
    /\ LET category == get_category_for_method(m)
           sym == ExtractSymbol(a)
           prim == SplitVendors(get_vendor(config, category, m, sym))
           plan == BuildPlan(config, m, sym, prim)
       IN  IF category = NoCategory
           THEN /\ symbol' = NoSymbol
                /\ primary_vendors' = <<>>
                /\ fallback_vendors' = <<>>
                /\ SetLoop("done", 0, 0, <<>>, <<>>, 0, FALSE, NoVendor,
                           Raised("ValueError", m), <<>>, <<>>)
           ELSE IF ~MethodInCatalog(m)
           THEN /\ symbol' = sym
                /\ primary_vendors' = prim
                /\ fallback_vendors' = <<>>
                /\ SetLoop("done", 0, 0, <<>>, <<>>, 0, FALSE, NoVendor,
                           [Raised("ValueError", m) EXCEPT
                               !.error.msg = <<"Method '", m, "' not supported">>],
                           <<>>, <<>>)
           ELSE /\ symbol' = sym
                /\ primary_vendors' = prim
                /\ fallback_vendors' = plan
                /\ Enter(m, prim, plan, 1, <<>>, 0, FALSE, NoVendor, <<>>, <<>>)

\* mutant: the first positional argument replaced by the symbol formatted
\* for the vendor
AdapterArgs_Formatted(c, vendor) ==
    [args |-> IF c.args = <<>> THEN <<>>
              ELSE <<format_symbol_for_vendor(c.args[1],
                         IF Len(vendor) = 1 THEN vendor[1] ELSE "", NoneMarket)>>
                   \o Tail(c.args),
     kwargs |-> c.kwargs]

\* line 356, impl_func(*args, **kwargs): what the adapter of `vendor` is
\* called with in call c
AdapterArgs(c, vendor) == [args |-> c.args, kwargs |-> c.kwargs]

\* mutant: the handlers of lines 360-382 `break` out of the vendor's adapters
AfterImpl_BreakOnFailure(vr, res, v) ==
    LET m == call.method
        vendor == fallback_vendors[idx]
        n == Len(VendorImpl(m, vendor).impls)
        all == results \o vr
        acc == Append(accepted, [pos |-> idx, vendor |-> vendor, values |-> vr])
    IN  /\ invoked' = Append(invoked, [pos |-> idx, impl |-> impl_idx,
                                        res |-> res, value |-> v,
                                        passed |-> AdapterArgs(call, vendor)])
        /\ UNCHANGED <<config, callVars, gateVars, taskVars, other, marketVars>>
        /\ IF impl_idx < n /\ res = "ok"
           THEN SetLoop("invoke", idx, impl_idx + 1, vr, results,
                        vendor_attempt_count, any_primary_vendor_attempted,
                        successful_vendor, NoOutcome, accepted, rejected)
           ELSE IF vr = <<>>
           THEN Enter(m, primary_vendors, fallback_vendors, idx + 1, results,
                      vendor_attempt_count, any_primary_vendor_attempted,
                      successful_vendor, accepted, rejected)
           ELSE IF should_fallback_due_to_invalid_data(m, vr)
           THEN Enter(m, primary_vendors, fallback_vendors, idx + 1, results,
                      vendor_attempt_count, any_primary_vendor_attempted,
                      successful_vendor, accepted, Append(rejected, idx))
           ELSE IF stop_after_first_success(primary_vendors, m)
           THEN SetLoop("done", idx, impl_idx, vr, all, vendor_attempt_count,
                        any_primary_vendor_attempted, vendor,
                        FinalResult(m, all), acc, rejected)
           ELSE Enter(m, primary_vendors, fallback_vendors, idx + 1, all,
                      vendor_attempt_count, any_primary_vendor_attempted,
                      vendor, acc, rejected)

\* lines 357-418 and on: after impl_func returned v (res = "ok") or raised
\* (res the handler that took it), with vr the vendor's results so far, up to
\* the next invocation or the end of the call
AfterImpl(vr, res, v) ==
    LET m == call.method
        vendor == fallback_vendors[idx]
        n == Len(VendorImpl(m, vendor).impls)
        all == results \o vr
        acc == Append(accepted, [pos |-> idx, vendor |-> vendor, values |-> vr])
    IN  /\ invoked' = Append(invoked, [pos |-> idx, impl |-> impl_idx,
                                        res |-> res, value |-> v,
                                        passed |-> AdapterArgs(call, vendor)])
        /\ UNCHANGED <<config, callVars, gateVars, taskVars, other, marketVars>>
        /\ IF impl_idx < n
           THEN SetLoop("invoke", idx, impl_idx + 1, vr, results,
                        vendor_attempt_count, any_primary_vendor_attempted,
                        successful_vendor, NoOutcome, accepted, rejected)
           ELSE IF vr = <<>>
           THEN Enter(m, primary_vendors, fallback_vendors, idx + 1, results,
                      vendor_attempt_count, any_primary_vendor_attempted,
                      successful_vendor, accepted, rejected)
           ELSE IF should_fallback_due_to_invalid_data(m, vr)
           THEN Enter(m, primary_vendors, fallback_vendors, idx + 1, results,
                      vendor_attempt_count, any_primary_vendor_attempted,
                      successful_vendor, accepted, Append(rejected, idx))
           ELSE IF stop_after_first_success(primary_vendors, m)
           THEN SetLoop("done", idx, impl_idx, vr, all, vendor_attempt_count,
                        any_primary_vendor_attempted, vendor,
                        FinalResult(m, all), acc, rejected)
           ELSE Enter(m, primary_vendors, fallback_vendors, idx + 1, all,
                      vendor_attempt_count, any_primary_vendor_attempted,
                      vendor, acc, rejected)

CurrentImpl == VendorImpl(call.method, fallback_vendors[idx]).impls[impl_idx]

\* lines 356-358: impl_func returns
AdapterReturns ==
    /\ pc = "invoke"
    /\ \E v \in ReturnValues(call.method, CurrentImpl) :
          AfterImpl(Append(vendor_results, v), "ok", v)

\* lines 360-365: impl_func raises AlphaVantageRateLimitError, the signal of
\* the alpha_vantage adapters
AdapterRateLimited(e) ==
    /\ pc = "invoke"
    /\ e.type = "AlphaVantageRateLimitError"
    /\ fallback_vendors[idx] = <<"alpha_vantage">>
    /\ AfterImpl(vendor_results, Classify(e), NoValue)

\* lines 366-371: impl_func raises a connection or timeout error
AdapterNetworkError(e) ==
    /\ pc = "invoke"
    /\ e.type \in {"ConnectionError", "ConnectionAbortedError",
                   "ConnectionResetError", "TimeoutError"}
    /\ AfterImpl(vendor_results, Classify(e), NoValue)

\* mutant: no `except Exception` clause, the exception leaves the call
AdapterOtherException_Propagates(e) ==
    /\ pc = "invoke"
    /\ e.type \notin {"AlphaVantageRateLimitError", "ConnectionError",
                      "ConnectionAbortedError", "ConnectionResetError",
                      "TimeoutError"}
    /\ invoked' = Append(invoked, [pos |-> idx, impl |-> impl_idx,
                                    res |-> Classify(e), value |-> NoValue,
                                    passed |-> AdapterArgs(call, fallback_vendors[idx])])
    /\ SetLoop("done", idx, impl_idx, vendor_results, results,
               vendor_attempt_count, any_primary_vendor_attempted,
               successful_vendor,
               [kind |-> "raise", value |-> NoValue,
                error |-> [type |-> e.type, method |-> call.method, msg |-> <<e.msg>>]],
               accepted, rejected)
    /\ UNCHANGED <<config, callVars, gateVars, taskVars, other, marketVars>>

\* lines 372-382: impl_func raises any other Exception
AdapterOtherException(e) ==
    /\ pc = "invoke"
    /\ e.type \notin {"AlphaVantageRateLimitError", "ConnectionError",
                      "ConnectionAbortedError", "ConnectionResetError",
                      "TimeoutError"}
    /\ AfterImpl(vendor_results, Classify(e), NoValue)

\* the caller has the outcome; the call's state is discarded
Return ==
    /\ pc = "done"
    /\ pc' = "idle"
    /\ call' = [method |-> "", args |-> <<>>, kwargs |-> <<>>]
    /\ symbol' = NoSymbol
    /\ primary_vendors' = <<>>
    /\ fallback_vendors' = <<>>
    /\ invoked' = <<>>
    /\ SetLoop("idle", 0, 0, <<>>, <<>>, 0, FALSE, NoVendor, NoOutcome, <<>>, <<>>)
    /\ UNCHANGED <<config, gateVars, taskVars, other, marketVars>>

\* the local variables of one call of route_to_vendor: its frame
Frame ==
    [pc |-> pc, call |-> call, symbol |-> symbol,
     primary_vendors |-> primary_vendors, fallback_vendors |-> fallback_vendors,
     idx |-> idx, impl_idx |-> impl_idx, vendor_results |-> vendor_results,
     results |-> results, vendor_attempt_count |-> vendor_attempt_count,
     any_primary_vendor_attempted |-> any_primary_vendor_attempted,
     successful_vendor |-> successful_vendor, outcome |-> outcome,
     invoked |-> invoked, accepted |-> accepted, rejected |-> rejected]

\* the frame of a thread that is not in a call
IdleFrame ==
    [pc |-> "idle", call |-> [method |-> "", args |-> <<>>, kwargs |-> <<>>],
     symbol |-> NoSymbol, primary_vendors |-> <<>>, fallback_vendors |-> <<>>,
     idx |-> 0, impl_idx |-> 0, vendor_results |-> <<>>, results |-> <<>>,
     vendor_attempt_count |-> 0, any_primary_vendor_attempted |-> FALSE,
     successful_vendor |-> NoVendor, outcome |-> NoOutcome,
     invoked |-> <<>>, accepted |-> <<>>, rejected |-> <<>>]

Init ==
    /\ config \in Configs
    /\ pc = "idle"
    /\ call = [method |-> "", args |-> <<>>, kwargs |-> <<>>]
    /\ symbol = NoSymbol
    /\ primary_vendors = <<>>
    /\ fallback_vendors = <<>>
    /\ idx = 0
    /\ impl_idx = 0
    /\ vendor_results = <<>>
    /\ results = <<>>
    /\ vendor_attempt_count = 0
    /\ any_primary_vendor_attempted = FALSE
    /\ successful_vendor = NoVendor
    /\ outcome = NoOutcome
    /\ invoked = <<>>
    /\ accepted = <<>>
    /\ rejected = <<>>
    /\ gate_text = <<>>
    /\ gate_result = "none"
    /\ other = IdleFrame
    /\ m_op = "none"
    /\ m_symbol = <<>>
    /\ m_vendor = ""
    /\ m_market = NoneMarket
    /\ m_result = <<>>
    /\ task_manager = TaskManager(MaxWorkers)
    /\ waiting = {}
    /\ started_from = <<>>

Next ==
    \/ \E m \in Methods, a \in Args : Call(m, a)
    \/ AdapterReturns
    \/ \E e \in Exceptions : AdapterRateLimited(e)
    \/ \E e \in Exceptions : AdapterNetworkError(e)
    \/ \E e \in Exceptions : AdapterOtherException(e)
    \/ Return

Spec == Init /\ [][Next]_vars

---------------------------------------------------------------------------
(* Two calls of route_to_vendor in two threads.  The variables hold the frame
   of the thread that runs, `other` the frame of the thread that waits; the
   configuration and the catalog are the one object both read. *)

\* mutant: `results` a module-level list, the one object for both calls
Swap_SharedResults ==
    /\ other # Frame
    /\ call' = other.call
    /\ symbol' = other.symbol
    /\ primary_vendors' = other.primary_vendors
    /\ fallback_vendors' = other.fallback_vendors
    /\ invoked' = other.invoked
    /\ SetLoop(other.pc, other.idx, other.impl_idx, other.vendor_results,
               results, other.vendor_attempt_count,
               other.any_primary_vendor_attempted, other.successful_vendor,
               other.outcome, other.accepted, other.rejected)
    /\ other' = Frame
    /\ UNCHANGED <<config, gateVars, taskVars, marketVars>>

\* the interpreter switches threads: the running call's locals (lines 281-324
\* and the loop's) wait with it, the other call's come back as it left them
Swap ==
    /\ other # Frame
    /\ call' = other.call
    /\ symbol' = other.symbol
    /\ primary_vendors' = other.primary_vendors
    /\ fallback_vendors' = other.fallback_vendors
    /\ invoked' = other.invoked
    /\ SetLoop(other.pc, other.idx, other.impl_idx, other.vendor_results,
               other.results, other.vendor_attempt_count,
               other.any_primary_vendor_attempted, other.successful_vendor,
               other.outcome, other.accepted, other.rejected)
    /\ other' = Frame
    /\ UNCHANGED <<config, gateVars, taskVars, marketVars>>

TwoMethods == {"get_indicators", "get_global_news"}

TwoArgs ==
    { [args |-> << <<"6","0","0","5","1","9">> >>, kwargs |-> <<>>],
      [args |-> <<>>, kwargs |-> <<>>] }

TwoNext ==
    \/ \E m \in TwoMethods, a \in TwoArgs : Call(m, a)
    \/ AdapterReturns
    \/ \E e \in Exceptions : AdapterRateLimited(e)
    \/ \E e \in Exceptions : AdapterNetworkError(e)
    \/ \E e \in Exceptions : AdapterOtherException(e)
    \/ Return
    \/ Swap

TwoInit ==
    /\ Init
    /\ config = Config(DefaultMarketVendors, DefaultToolVendors, DefaultDataVendors)

SpecTwo == TwoInit /\ [][TwoNext]_vars

---------------------------------------------------------------------------
(* The quality gate on its own: texts of up to MaxLines lines *)

MaxLines == 10

\* the lines a text is made of; a text takes them in this order, which the
\* gate, judging each line alone, does not look at
GateLines == <<NumLine, TextLine, HolidayLine, EmptyValueLine, HeaderLine,
               BadDateLine, ShortDateLine, PlainLine, <<>> >>

LineIndex(line) == CHOOSE k \in DOMAIN GateLines : GateLines[k] = line

GateAppend(k) ==
    /\ gate_result = "none"
    /\ Len(gate_text) < MaxLines
    /\ gate_text # <<>> => LineIndex(Last(gate_text)) <= k
    /\ gate_text' = Append(gate_text, GateLines[k])
    /\ UNCHANGED <<config, pc, callVars, loopVars, gate_result, other, marketVars, taskVars>>

\* _is_indicator_result_invalid(gate_text)
GateCheck ==
    /\ gate_result = "none"
    /\ gate_text # <<>>
    /\ gate_result' = IF is_indicator_result_invalid(gate_text) THEN "invalid" ELSE "valid"
    /\ UNCHANGED <<config, pc, callVars, loopVars, gate_text, other, marketVars, taskVars>>

GateReset ==
    /\ gate_result # "none"
    /\ gate_text' = <<>>
    /\ gate_result' = "none"
    /\ UNCHANGED <<config, pc, callVars, loopVars, other, marketVars, taskVars>>

GateInit ==
    /\ Init
    /\ config = Config(DefaultMarketVendors, DefaultToolVendors, DefaultDataVendors)

GateNext ==
    \/ \E k \in DOMAIN GateLines : GateAppend(k)
    \/ GateCheck
    \/ GateReset

SpecGate == GateInit /\ [][GateNext]_vars

---------------------------------------------------------------------------
(* MarketIdentifier on its own: symbols of a prefix and up to MaxTail more
   characters *)

MaxTail == 3

SymbolChars == {"0", "7", ".", "H", "k", " "}

SymbolPrefixes ==
    { <<>>,
      <<"6","0","0">>, <<"0","0","0">>, <<"3","0">>, <<"6","8","8">>,
      <<"8","0","0","0","0">>, <<" ","4","0","0">>,
      <<"0","7","0","0">>, <<"-","7">>, <<"s","z","0","0","0">>, <<"a","a">> }

SymbolTails == UNION {[1..n -> SymbolChars] : n \in 0..MaxTail}

MarketSymbols == {p \o t : p \in SymbolPrefixes, t \in SymbolTails}

MarketVendors == {"akshare", "baostock", "yfinance", "alpha_vantage", "local"}

MarketArgs == {NoneMarket, "A_STOCK", "HK_STOCK", "US_STOCK", "UNKNOWN"}

\* MarketIdentifier.identify_market(s)
Identify ==
    /\ m_op = "none"
    /\ m_op' = "identify"
    /\ \E s \in MarketSymbols :
          /\ m_symbol' = s
          /\ m_result' = identify_market(s)
    /\ UNCHANGED <<config, pc, callVars, loopVars, gateVars, taskVars, other, m_vendor, m_market>>

\* MarketIdentifier.format_symbol_for_vendor(s, v, mk)
Format ==
    /\ m_op = "none"
    /\ m_op' = "format"
    /\ \E s \in MarketSymbols, v \in MarketVendors, mk \in MarketArgs :
          /\ m_symbol' = s
          /\ m_vendor' = v
          /\ m_market' = mk
          /\ m_result' = format_symbol_for_vendor(s, v, mk)
    /\ UNCHANGED <<config, pc, callVars, loopVars, gateVars, taskVars, other>>

\* MarketIdentifier.identify_market(r), r the symbol format_symbol_for_vendor
\* returned when it identified the market itself
ClassifyFormatted ==
    /\ m_op = "format"
    /\ m_market = NoneMarket
    /\ m_op' = "classify_formatted"
    /\ m_result' = identify_market(m_result)
    /\ UNCHANGED <<config, pc, callVars, loopVars, gateVars, taskVars, other,
                   m_symbol, m_vendor, m_market>>

\* MarketIdentifier.format_symbol_for_vendor(r, v), r the symbol it returned
\* for the same vendor
FormatAgain ==
    /\ m_op = "format"
    /\ m_market = NoneMarket
    /\ m_op' = "format_again"
    /\ m_symbol' = m_result
    /\ m_result' = format_symbol_for_vendor(m_result, m_vendor, NoneMarket)
    /\ UNCHANGED <<config, pc, callVars, loopVars, gateVars, taskVars, other,
                   m_vendor, m_market>>

MarketReset ==
    /\ m_op # "none"
    /\ m_op' = "none"
    /\ m_symbol' = <<>>
    /\ m_vendor' = ""
    /\ m_market' = NoneMarket
    /\ m_result' = <<>>
    /\ UNCHANGED <<config, pc, callVars, loopVars, gateVars, taskVars, other>>

MarketNext ==
    \/ Identify
    \/ Format
    \/ ClassifyFormatted
    \/ FormatAgain
    \/ MarketReset

SpecMarket == GateInit /\ [][MarketNext]_vars

---------------------------------------------------------------------------
(* The TaskManager on its own: the event loop submits, stops and monitors,
   the pool threads run the tasks and their completion callbacks *)

routeVars == <<config, pc, callVars, loopVars, gateVars, other, marketVars>>

\* what a handler entered by `thread` leaves behind
Handled(r, thread) ==
    /\ task_manager' = r.tm
    /\ waiting' = IF r.blocked = "" THEN waiting
                  ELSE waiting \cup {[thread |-> thread, callee |-> r.blocked]}
    /\ started_from' = [a \in DOMAIN r.tm.active_tasks |->
                           IF a \in DOMAIN r.started THEN r.started[a]
                           ELSE started_from[a]]

\* start_analysis line 95: task_manager.submit_task(analysis_id, user_id, ...)
SubmitTask ==
    /\ CanAcquire(task_manager, LoopThread)
    /\ \E analysis_id \in AnalysisIds, done_early \in BOOLEAN :
          Handled(submit_task(task_manager, LoopThread, analysis_id,
                              Owner(analysis_id), done_early),
                  LoopThread)
    /\ UNCHANGED routeVars

\* _run_task returns or raises in its pool thread: the future is done
TaskFinishes(analysis_id) ==
    /\ analysis_id \in DOMAIN task_manager.executor
    /\ task_manager.executor[analysis_id] = "running"
    /\ task_manager' = [task_manager EXCEPT !.executor[analysis_id] = "finished"]
    /\ UNCHANGED <<routeVars, waiting, started_from>>

\* the done callback of line 318, run by the pool thread of the task
TaskCompleted(analysis_id) ==
    /\ analysis_id \in DOMAIN task_manager.executor
    /\ task_manager.executor[analysis_id] = "finished"
    /\ CanAcquire(task_manager, WorkerThread(analysis_id))
    /\ \E done_early \in BOOLEAN :
          Handled(_task_completed(task_manager, WorkerThread(analysis_id),
                                  analysis_id, Owner(analysis_id), done_early),
                  WorkerThread(analysis_id))
    /\ UNCHANGED routeVars

\* send_log of a running task (analysis_task.py line 193)
UpdateTaskLogTime(analysis_id) ==
    /\ analysis_id \in DOMAIN task_manager.executor
    /\ task_manager.executor[analysis_id] = "running"
    /\ CanAcquire(task_manager, WorkerThread(analysis_id))
    /\ task_manager' = update_task_log_time(task_manager, analysis_id)
    /\ UNCHANGED <<routeVars, waiting, started_from>>

\* task_monitor (line 156), every 60 seconds
CheckStalledTasks ==
    /\ CanAcquire(task_manager, LoopThread)
    /\ \E late \in SUBSET task_manager.task_last_log_time :
          task_manager' = check_stalled_tasks(task_manager, late)
    /\ UNCHANGED <<routeVars, waiting, started_from>>

\* stop_analysis line 137
StopTask ==
    /\ CanAcquire(task_manager, LoopThread)
    /\ \E analysis_id \in AnalysisIds :
          task_manager' = stop_task(task_manager, analysis_id)
    /\ UNCHANGED <<routeVars, waiting, started_from>>

\* task_routes.py line 20: the status is read and nothing changes
GetStatus ==
    /\ CanAcquire(task_manager, LoopThread)
    /\ get_status(task_manager).running = task_manager.running_count
    /\ UNCHANGED vars

TaskInit ==
    /\ Init
    /\ config = Config(DefaultMarketVendors, DefaultToolVendors, DefaultDataVendors)

\* submissions, task ends and completion callbacks
QueueNext ==
    \/ SubmitTask
    \/ \E a \in AnalysisIds : TaskFinishes(a)
    \/ \E a \in AnalysisIds : TaskCompleted(a)

SpecQueue == TaskInit /\ [][QueueNext]_vars

\* the same with the stop requests, the log times and the monitor
TaskNext ==
    \/ QueueNext
    \/ \E a \in AnalysisIds : UpdateTaskLogTime(a)
    \/ CheckStalledTasks
    \/ StopTask
    \/ GetStatus

SpecTask == TaskInit /\ [][TaskNext]_vars

\* every finished task's callback is run by its pool thread, and every task
\* finishes
TaskFairness ==
    \A a \in AnalysisIds :
        WF_vars(TaskFinishes(a)) /\ WF_vars(TaskCompleted(a))

SpecQueueFair == SpecQueue /\ TaskFairness

---------------------------------------------------------------------------
(* Properties *)

Done == pc = "done"

\* the call got past lines 281 and 298: a plan was built
PlanBuilt == pc # "idle" /\ call.method \in DOMAIN VENDOR_METHODS

SingleResultMethods == {"get_stock_data", "get_indicators"}

AllFailed ==
    [type |-> "RuntimeError", method |-> call.method,
     msg |-> <<"All vendor implementations failed for method '", call.method, "'">>]

\* a non-empty symbol was passed and market_vendors has its market
HasMarketEntry ==
    /\ symbol.given
    /\ symbol.s # <<>>
    /\ identify_market(symbol.s) \in DOMAIN config.market_vendors

\* the values the adapters returned at plan positions the gate did not
\* reject, in invocation order
RECURSIVE KeptValues(_, _)
KeptValues(log, rej) ==
    IF log = <<>> THEN <<>>
    ELSE (IF Head(log).res = "ok" /\ ~Contains(rej, Head(log).pos)
          THEN <<Head(log).value>> ELSE <<>>) \o KeptValues(Tail(log), rej)

\* C1: for get_stock_data and get_indicators with a plan [A, B, C, ...]:
\* once A's adapter has raised a network-classified error and B's adapter has
\* returned a value that was accepted, the call has returned B's value, the
\* successful vendor is B and no adapter at position 3 or later was invoked.
C1_NetworkFailThenSecondWins ==
    ( /\ call.method \in SingleResultMethods
      /\ Len(fallback_vendors) >= 3
      /\ Len(invoked) >= 2
      /\ invoked[1].pos = 1 /\ invoked[1].res = "network"
      /\ invoked[2].pos = 2 /\ invoked[2].res = "ok"
      /\ ~Contains(rejected, 2) )
    => /\ Done
       /\ outcome.kind = "return"
       /\ outcome.value = invoked[2].value
       /\ successful_vendor = fallback_vendors[2]
       /\ \A i \in DOMAIN invoked : invoked[i].pos <= 2

\* C1 witness: A failed on the network, B was accepted, and a registered C
\* was waiting at position 3
C1_Witness ==
    /\ Done
    /\ call.method \in SingleResultMethods
    /\ Len(fallback_vendors) >= 3
    /\ Len(invoked) = 2
    /\ invoked[1].pos = 1 /\ invoked[1].res = "network"
    /\ invoked[2].pos = 2 /\ invoked[2].res = "ok"
    /\ outcome.kind = "return"
    /\ VendorRegistered(call.method, fallback_vendors[3])

\* C2: a call that built its plan ends with the RuntimeError naming the
\* method exactly when no vendor was accepted; with at least one accepted
\* vendor it returns.
C2_FailsIffNothingAccepted ==
    (Done /\ PlanBuilt) =>
        /\ (outcome.kind = "raise" /\ outcome.error = AllFailed) <=> (accepted = <<>>)
        /\ (accepted # <<>>) => outcome.kind = "return"
        /\ (accepted = <<>>) <=> (KeptValues(invoked, rejected) = <<>>)

\* C2 witness: every vendor of the plan was tried, one had its indicator
\* result rejected, and the call raised
C2_Witness ==
    /\ Done /\ PlanBuilt
    /\ outcome.kind = "raise" /\ outcome.error = AllFailed
    /\ Len(invoked) >= 3
    /\ rejected # <<>>
    /\ \E i \in DOMAIN fallback_vendors :
          ~VendorRegistered(call.method, fallback_vendors[i])

\* the vendor names of one part of a market entry; an empty part names none
NamesOf(part) == IF part = <<>> THEN <<>> ELSE SplitVendors(part)

MarketEntry == config.market_vendors[identify_market(symbol.s)]

MarketEntryNames == NamesOf(MarketEntry.primary) \o NamesOf(MarketEntry.fallback)

\* the category whose tools list the method
CategoryOf(method) ==
    TOOLS_CATEGORIES[CHOOSE i \in DOMAIN TOOLS_CATEGORIES :
                         method \in Range(TOOLS_CATEGORIES[i][2])][1]

InSomeCategory(method) ==
    \E i \in DOMAIN TOOLS_CATEGORIES : method \in Range(TOOLS_CATEGORIES[i][2])

\* C3 (as claimed): with a market entry for the symbol's market the plan holds
\* only vendors that entry names, and when none of them is registered for the
\* method no adapter is invoked and the call ends with the RuntimeError.
C3_MarketPlanOnlyConfigured ==
    (PlanBuilt /\ HasMarketEntry) =>
        /\ Range(fallback_vendors) \subseteq Range(MarketEntryNames)
        /\ (\A v \in Range(MarketEntryNames) : ~VendorRegistered(call.method, v))
              => /\ invoked = <<>>
                 /\ Done
                 /\ outcome.kind = "raise" /\ outcome.error = AllFailed

\* C4: without a market entry the plan is the configured list, in order, then
\* the catalog's vendors for the method that the list lacks, in catalog
\* order; with one configured vendor that is not registered for the method,
\* the rest of the plan is the whole catalog list.
C4_SafetyNetPlan ==
    (PlanBuilt /\ ~HasMarketEntry) =>
        LET NotConfigured(v) == ~Contains(primary_vendors, v)
            catalog == CatalogVendors(call.method)
        IN  /\ fallback_vendors = primary_vendors \o SelectSeq(catalog, NotConfigured)
            /\ ( /\ Len(primary_vendors) = 1
                 /\ ~VendorRegistered(call.method, primary_vendors[1]) )
               => fallback_vendors = primary_vendors \o catalog

\* C4 witness: tool_vendors names the one vendor "google" for get_stock_data,
\* which does not register it, and the whole catalog list follows
C4_Witness ==
    /\ PlanBuilt /\ ~HasMarketEntry
    /\ call.method = "get_stock_data"
    /\ "get_stock_data" \in DOMAIN config.tool_vendors
    /\ primary_vendors = << <<"google">> >>
    /\ Len(fallback_vendors) = 6
    /\ fallback_vendors[2] = <<"alpha_vantage">>
    /\ fallback_vendors[6] = <<"local">>

\* C6: a returning call returns the one accepted value itself when one value
\* was accepted, and otherwise the str forms of the accepted values joined by
\* newlines in the order they were returned.
RECURSIVE JoinedText(_)
JoinedText(vals) ==
    IF vals = <<>> THEN <<>> ELSE Head(vals).text \o JoinedText(Tail(vals))

C6_ReturnedValue ==
    (Done /\ outcome.kind = "return") =>
        LET vals == KeptValues(invoked, rejected)
        IN  /\ vals # <<>>
            /\ Len(vals) = 1 => outcome.value = vals[1]
            /\ Len(vals) > 1 => outcome.value = [kind |-> "str", text |-> JoinedText(vals)]

\* C6 witness: get_news with three vendors accepted, one value each, one of
\* them a native value
C6_Witness ==
    /\ Done /\ outcome.kind = "return"
    /\ call.method = "get_news"
    /\ Len(accepted) = 3
    /\ Len(invoked) = 3
    /\ \A i \in DOMAIN invoked : invoked[i].res = "ok" /\ invoked[i].pos = i
    /\ invoked[1].value.kind = "native"
    /\ outcome.value.kind = "str"
    /\ Len(outcome.value.text) = 4

C8_SingleResult ==
    call.method \in SingleResultMethods =>
        LET vals == KeptValues(invoked, rejected)
        IN  /\ Len(vals) <= 1
            /\ Len(accepted) <= 1
            /\ Len(results) <= 1
            /\ Done => \/ /\ outcome.kind = "raise" /\ outcome.error = AllFailed
                          /\ vals = <<>>
                       \/ /\ outcome.kind = "return"
                          /\ Len(vals) = 1
                          /\ outcome.value = vals[1]

\* C8 witness: several vendors configured, the first accepted, and a
\* registered vendor left untried
C8_Witness ==
    /\ Done
    /\ call.method \in SingleResultMethods
    /\ Len(primary_vendors) >= 2
    /\ outcome.kind = "return"
    /\ Len(invoked) = 1
    /\ idx < Len(fallback_vendors)
    /\ VendorRegistered(call.method, fallback_vendors[idx + 1])

\* C9 (as claimed): with a market entry for the symbol's market the resolved
\* list is the entry's primary names then its fallback names, an empty part
\* skipped, and the plan is that list alone.
C9_MarketEntryResolved ==
    (PlanBuilt /\ HasMarketEntry) =>
        /\ primary_vendors = MarketEntryNames
        /\ fallback_vendors = primary_vendors

\* C10: without a market entry the resolved list is tool_vendors[method] when
\* that key exists, else data_vendors[category] when that key exists, else
\* the one name "default"; and the plan gets the safety net.
C10_LowerLayers ==
    (PlanBuilt /\ ~HasMarketEntry) =>
        LET m == call.method
            expected == IF m \in DOMAIN config.tool_vendors
                        THEN config.tool_vendors[m]
                        ELSE IF CategoryOf(m) \in DOMAIN config.data_vendors
                        THEN config.data_vendors[CategoryOf(m)]
                        ELSE <<"default">>
        IN  /\ primary_vendors = SplitVendors(expected)
            /\ \A v \in Range(CatalogVendors(m)) : Contains(fallback_vendors, v)

\* C10 witness: neither tool_vendors nor data_vendors has the key and the
\* list is the one name "default", with the catalog's vendors behind it
C10_Witness ==
    /\ PlanBuilt /\ ~HasMarketEntry
    /\ symbol.given /\ symbol.s # <<>>
    /\ call.method \notin DOMAIN config.tool_vendors
    /\ CategoryOf(call.method) \notin DOMAIN config.data_vendors
    /\ primary_vendors = << <<"default">> >>
    /\ Len(fallback_vendors) > 1

\* the lines of GateLines that start with a YYYY-MM-DD date, and those of
\* them whose value is a number or other text that is no "no data" marker
DateLineKinds == {NumLine, TextLine, HolidayLine, EmptyValueLine}
ValidLineKinds == {NumLine, TextLine}

CountOf(text, kinds) == Cardinality({i \in DOMAIN text : text[i] \in kinds})

\* C5: the gate rejects a text exactly when it has no date line or
\* 10 * valid_lines < 3 * date_lines; 2 of 10 is rejected, 3 of 10 and 4 of
\* 10 are accepted.
C5_GateThreshold ==
    gate_result # "none" =>
        LET d == CountOf(gate_text, DateLineKinds)
            v == CountOf(gate_text, ValidLineKinds)
        IN  /\ (gate_result = "invalid") <=> (d = 0 \/ 10 * v < 3 * d)
            /\ (d = 10 /\ v = 2) => gate_result = "invalid"
            /\ (d = 10 /\ v \in {3, 4}) => gate_result = "valid"

\* C5 witness: exactly 3 valid of 10 date lines, accepted
C5_Witness ==
    /\ gate_result = "valid"
    /\ CountOf(gate_text, DateLineKinds) = 10
    /\ CountOf(gate_text, ValidLineKinds) = 3
    /\ CountOf(gate_text, {HolidayLine}) = 7

---------------------------------------------------------------------------
(* Properties of the executor's loop *)

\* is_market_supported for a vendor name of the plan
Supported(sym, name) == Len(name) = 1 /\ is_market_supported(sym, name[1])

\* the plan positions the loop is through with
LoopPassed ==
    IF pc = "invoke" THEN 1..(idx - 1)
    ELSE {j \in DOMAIN fallback_vendors : j <= idx}

InvokedAt(j) == \E i \in DOMAIN invoked : invoked[i].pos = j

\* C11 (as claimed): no adapter is invoked for a vendor of the plan whose
\* supported markets lack the market of the call's symbol.
C11_UnsupportedSkipped ==
    (PlanBuilt /\ symbol.given /\ symbol.s # <<>>) =>
        \A i \in DOMAIN invoked :
            Supported(symbol.s, fallback_vendors[invoked[i].pos])

\* C11 (amended): the loop skips exactly the vendors of the plan that are not
\* registered for the method; every registered vendor it comes to has its
\* adapter invoked, whether or not is_market_supported holds for it.
C11_OnlyUnregisteredSkipped ==
    PlanBuilt =>
        /\ \A j \in LoopPassed :
              VendorRegistered(call.method, fallback_vendors[j]) <=> InvokedAt(j)
        /\ pc = "invoke" => VendorRegistered(call.method, fallback_vendors[idx])

\* C11 witness: a vendor not registered for the method was skipped and the
\* adapter of a vendor that does not support the symbol's market was invoked
C11_Witness ==
    /\ Done /\ PlanBuilt
    /\ symbol.given /\ symbol.s # <<>>
    /\ \E i \in DOMAIN invoked :
          /\ ~Supported(symbol.s, fallback_vendors[invoked[i].pos])
          /\ \E j \in 1..(invoked[i].pos - 1) :
                ~VendorRegistered(call.method, fallback_vendors[j])

\* the plan positions whose vendor is registered for the method
RegisteredPositions ==
    {j \in DOMAIN fallback_vendors : VendorRegistered(call.method, fallback_vendors[j])}

InvokedPositions == {invoked[i].pos : i \in DOMAIN invoked}

---------------------------------------------------------------------------
(* Properties of MarketIdentifier *)

Markets == {"A_STOCK", "HK_STOCK", "US_STOCK", "UNKNOWN"}

\* upper(trim(s))
Normalised(s) == StrUpper(StrStrip(s))

\* C13: identify_market gives every symbol one of the four markets, and the
\* market it gives the symbol is the one it gives the trimmed, uppercased
\* symbol.
C13_ClassifyTotalOnNormalised ==
    m_op = "identify" =>
        /\ m_result \in Markets
        /\ m_result = identify_market(Normalised(m_symbol))
        /\ Normalised(Normalised(m_symbol)) = Normalised(m_symbol)

\* C13 witness: a symbol in lower case with a blank behind it, classified by
\* its normal form
C13_Witness ==
    /\ m_op = "identify"
    /\ m_symbol = <<"a","a","k"," ">>
    /\ m_result = "US_STOCK"

\* the market format_symbol_for_vendor works with
EffectiveMarket == IF m_market = NoneMarket THEN identify_market(m_symbol) ELSE m_market

\* the vendor and market have no formatting rule
NoRule(vendor, market) ==
    \/ vendor \notin {"akshare", "baostock", "yfinance", "alpha_vantage"}
    \/ market \notin {"A_STOCK", "HK_STOCK", "US_STOCK"}
    \/ vendor = "baostock" /\ market # "A_STOCK"

\* C14 (as claimed): format_symbol_for_vendor returns a string, and for a
\* vendor and market without a rule the input symbol unchanged.
C14_NoRuleReturnsInput ==
    m_op = "format" =>
        /\ m_result \in Seq(SymbolChars \cup {"-", "6", "3", "8", "4", "s", "z", "a", "h", "K", "S", "Z", "A"})
        /\ NoRule(m_vendor, EffectiveMarket) => m_result = m_symbol

\* C14 (amended): format_symbol_for_vendor returns a string, and for a vendor
\* and market without a rule the input symbol uppercased and trimmed.
C14_NoRuleReturnsNormalised ==
    m_op = "format" =>
        /\ m_result \in Seq(SymbolChars \cup {"-", "6", "3", "8", "4", "s", "z", "a", "h", "K", "S", "Z", "A"})
        /\ NoRule(m_vendor, EffectiveMarket) => m_result = Normalised(m_symbol)

\* C14 witness: baostock, which has no rule for Hong Kong, given a symbol
\* with a blank before it
C14_Witness ==
    /\ m_op = "format"
    /\ m_vendor = "baostock"
    /\ m_market = NoneMarket
    /\ m_symbol = <<" ","4","0","0","0">>
    /\ m_result = <<"4","0","0","0">>

---------------------------------------------------------------------------
(* Properties of two concurrent calls *)

\* the values a frame's own adapters returned at positions the gate let pass
FrameKept(f) == KeptValues(f.invoked, f.rejected)

FramePositions(f) == {f.invoked[i].pos : i \in DOMAIN f.invoked}

\* the plan positions the gate has to reject: a get_indicators value, the
\* vendor's only one, that the gate finds invalid
FrameRejects(f) ==
    {f.invoked[i].pos : i \in {k \in DOMAIN f.invoked :
          /\ f.call.method = "get_indicators"
          /\ f.invoked[k].res = "ok"
          /\ is_indicator_result_invalid(PyStr(f.invoked[k].value))}}

\* a frame is what its own call, the configuration and the answers of its
\* own adapters make it, as in a run of the call alone
FrameAlone(f) ==
    (f.pc # "idle" /\ f.call.method \in DOMAIN VENDOR_METHODS) =>
        LET m == f.call.method
            sym == ExtractSymbol(f.call)
            prim == SplitVendors(get_vendor(config, get_category_for_method(m), m, sym))
            plan == BuildPlan(config, m, sym, prim)
            registered == {j \in DOMAIN plan : VendorRegistered(m, plan[j])}
            passed == IF f.pc = "invoke" THEN 1..(f.idx - 1)
                      ELSE {j \in DOMAIN plan : j <= f.idx}
            stopped == f.pc = "done" /\ f.idx <= Len(plan)
        IN  /\ f.symbol = sym
            /\ f.primary_vendors = prim
            /\ f.fallback_vendors = plan
            /\ FramePositions(f) \cap passed = registered \cap passed
            /\ FramePositions(f) \subseteq passed \cup {f.idx}
            /\ Range(f.rejected) = FrameRejects(f)
            /\ f.vendor_attempt_count =
                  Cardinality(FramePositions(f) \cup (IF f.pc = "invoke" THEN {f.idx} ELSE {}))
            /\ f.pc = "invoke" => f.results = KeptValues(
                  SelectSeq(f.invoked, LAMBDA r : r.pos < f.idx), f.rejected)
            /\ f.pc = "done" =>
                  /\ f.results = FrameKept(f)
                  /\ f.outcome = FinalResult(m, FrameKept(f))
                  /\ stopped => /\ stop_after_first_success(prim, m)
                                /\ Len(f.accepted) = 1
                                /\ f.accepted[1].pos = f.idx

\* C15: with two calls interleaved at their adapter invocations, the frame
\* of each, the running and the waiting one, at every moment is what a run
\* of that call alone gives: its plan comes from its own arguments, the
\* vendors attempted are those of its own plan, and its results, counter
\* and outcome come from the answers of its own adapters.
C15_NoInterference == FrameAlone(Frame) /\ FrameAlone(other)

\* C15 witness: both calls are done, they got there interleaved (each has
\* invoked two adapters and more), one returned several values joined and
\* the other raised
C15_Witness ==
    /\ pc = "done" /\ other.pc = "done"
    /\ call.method = "get_global_news" /\ other.call.method = "get_indicators"
    /\ Len(invoked) = 3 /\ Len(other.invoked) >= 3
    /\ outcome.kind = "return" /\ Len(accepted) = 2
    /\ other.outcome.kind = "raise"
    /\ other.rejected # <<>>

---------------------------------------------------------------------------
(* Frame and order properties of route_to_vendor *)

\* C16: no step of a call, from its entry to its return or raise, changes
\* the configuration (market_vendors, tool_vendors, data_vendors); the
\* catalog, VENDOR_METHODS, is a constant of the module that no step assigns.
C16_ConfigurationUnchanged == [][config' = config]_vars

\* C16 witness: a call that found neither a tool-level nor a category-level
\* entry, went on with "default" and the catalog's vendors and raised
C16_Witness ==
    /\ Done
    /\ config = Config(EmptyDict, EmptyDict, EmptyDict)
    /\ primary_vendors = << <<"default">> >>
    /\ invoked # <<>>
    /\ outcome.kind = "raise"

\* the rule of the claim: one configured vendor, or a single-result method
StopsAtFirst == Len(primary_vendors) = 1 \/ call.method \in SingleResultMethods

\* the plan positions whose adapters returned a value the gate let pass
AcceptedPositions ==
    {invoked[i].pos : i \in {k \in DOMAIN invoked :
          invoked[k].res = "ok" /\ ~Contains(rejected, invoked[k].pos)}}

\* C17: once a vendor is accepted, the iteration has stopped there exactly
\* when one vendor is configured or the method is get_stock_data or
\* get_indicators; otherwise it goes on through the plan, and at its end every
\* registered vendor of the plan was attempted and every accepted value is
\* among the results.
C17_StopRule ==
    (PlanBuilt /\ accepted # <<>>) =>
        IF StopsAtFirst
        THEN /\ Done
             /\ Len(accepted) = 1
             /\ idx = accepted[1].pos
             /\ \A i \in DOMAIN invoked : invoked[i].pos <= idx
        ELSE /\ pc = "invoke" =>
                  \A j \in 1..(idx - 1) :
                      VendorRegistered(call.method, fallback_vendors[j]) => InvokedAt(j)
             /\ Done =>
                  /\ idx = Len(fallback_vendors) + 1
                  /\ InvokedPositions = RegisteredPositions
                  /\ {accepted[i].pos : i \in DOMAIN accepted} = AcceptedPositions
                  /\ results = KeptValues(invoked, rejected)

\* C17 witness: an aggregating method with several vendors configured; the
\* first was accepted, a later one failed, another was accepted after it
C17_Witness ==
    /\ Done /\ PlanBuilt
    /\ ~StopsAtFirst
    /\ Len(accepted) >= 2
    /\ accepted[1].pos = 1
    /\ \E i \in DOMAIN invoked : invoked[i].res # "ok" /\ invoked[i].pos > 1
    /\ Len(results) >= 2

\* the gate's verdict on a value an adapter returned
GateRejects(v) == is_indicator_result_invalid(PyStr(v))

\* the first registered plan position after p, 0 when there is none
NextRegisteredAfter(p) ==
    LET later == {j \in RegisteredPositions : j > p}
    IN  IF later = {} THEN 0
        ELSE CHOOSE j \in later : \A k \in later : j <= k

\* C18: in a get_indicators call a value the gate rejects is never among
\* the results nor returned, the loop goes on to the next registered vendor
\* of the plan after it, and when every value that was returned has been
\* rejected the call ends with the RuntimeError.
C18_RejectedNeverReturned ==
    (PlanBuilt /\ call.method = "get_indicators") =>
        /\ \A i \in DOMAIN invoked :
              (invoked[i].res = "ok" /\ GateRejects(invoked[i].value)) =>
                  LET p == invoked[i].pos
                      n == NextRegisteredAfter(p)
                  IN  /\ Contains(rejected, p)
                      /\ \A k \in DOMAIN accepted : accepted[k].pos # p
                      /\ ~Contains(results, invoked[i].value)
                      /\ IF n = 0 THEN Done /\ idx = Len(fallback_vendors) + 1
                         ELSE InvokedAt(n) \/ (pc = "invoke" /\ idx = n)
        /\ \A k \in DOMAIN results : ~GateRejects(results[k])
        /\ (Done /\ outcome.kind = "return") => ~GateRejects(outcome.value)
        /\ ( /\ Done
             /\ \A i \in DOMAIN invoked :
                   invoked[i].res = "ok" => GateRejects(invoked[i].value) )
           => outcome.kind = "raise" /\ outcome.error = AllFailed

\* C18 witness: the first vendor's value was rejected, the next vendor was
\* attempted and its value returned
C18_Witness ==
    /\ Done /\ PlanBuilt
    /\ call.method = "get_indicators"
    /\ Len(invoked) = 2
    /\ invoked[1].res = "ok" /\ GateRejects(invoked[1].value)
    /\ rejected = <<invoked[1].pos>>
    /\ outcome.kind = "return"
    /\ outcome.value = invoked[2].value

\* where the loop goes after the adapter at position p, implementation k,
\* when it goes on: the vendor's next implementation, else the first
\* implementation of the next registered vendor, else <<0, 0>>: out of the loop
SlotAfter(p, k) ==
    LET n == Len(VendorImpl(call.method, fallback_vendors[p]).impls)
    IN  IF k < n THEN <<p, k + 1>>
        ELSE IF NextRegisteredAfter(p) # 0 THEN <<NextRegisteredAfter(p), 1>>
        ELSE <<0, 0>>

\* the adapter at position p, implementation k, was the vendor's last, an
\* earlier adapter of the vendor had returned a value, and with it the vendor
\* was accepted under the stop rule: the loop ends at p
StopsWithEarlierValue(p, k) ==
    /\ k = Len(VendorImpl(call.method, fallback_vendors[p]).impls)
    /\ \E j \in DOMAIN invoked : invoked[j].pos = p /\ invoked[j].res = "ok"
    /\ ~Contains(rejected, p)
    /\ StopsAtFirst

\* C19: whatever handler took an adapter's exception (rate limit, network
\* type, network keyword, any other Exception), the call does not end with
\* that exception: the next adapter invoked is the one after it in the vendor
\* and plan, the same for every kind of failure (unless the vendor is
\* accepted with the values of its earlier adapters and the stop rule ends
\* the loop); out of vendors, the call ends as its results say, returning
\* the accepted values if there are any.
C19_FailureAbsorbed ==
    PlanBuilt =>
        /\ \A i \in DOMAIN invoked :
              invoked[i].res # "ok" =>
                  LET nxt == SlotAfter(invoked[i].pos, invoked[i].impl)
                  IN  IF i < Len(invoked)
                      THEN <<invoked[i + 1].pos, invoked[i + 1].impl>> = nxt
                      ELSE IF StopsWithEarlierValue(invoked[i].pos, invoked[i].impl)
                      THEN Done /\ idx = invoked[i].pos /\ outcome.kind = "return"
                      ELSE IF nxt = <<0, 0>>
                      THEN Done /\ idx = Len(fallback_vendors) + 1
                      ELSE pc = "invoke" /\ <<idx, impl_idx>> = nxt
        /\ (Done /\ outcome.kind = "raise") =>
              /\ outcome.error = AllFailed
              /\ accepted = <<>>
        /\ (Done /\ accepted # <<>>) =>
              /\ outcome.kind = "return"
              /\ outcome.value = (IF Len(results) = 1 THEN results[1]
                                  ELSE JoinNewline(results))

\* C19 witness: a rate limit, a network error and another exception, at
\* three vendors in a row, and then a vendor whose value the call returned
C19_Witness ==
    /\ Done /\ PlanBuilt
    /\ Len(invoked) = 4
    /\ {invoked[i].res : i \in 1..3} = {"rate_limit", "network", "other"}
    /\ invoked[4].res = "ok"
    /\ outcome.kind = "return"
    /\ outcome.value = invoked[4].value

\* the slot invoked after slot <<p, k>>: the vendor's next adapter, or, all
\* adapters of the vendor done, the first adapter of the next registered vendor
FollowsInOrder(p, k, p2, k2) ==
    LET n == Len(VendorImpl(call.method, fallback_vendors[p]).impls)
    IN  \/ p2 = p /\ k2 = k + 1 /\ k < n
        \/ k = n /\ k2 = 1 /\ p2 = NextRegisteredAfter(p)

\* C20: the adapters are invoked in plan order, the plan being the
\* configured vendors in configured order followed by the safety net: the
\* first invocation is the first adapter of the first registered vendor, and
\* each next one is the next adapter of the same vendor or, every adapter of
\* that vendor having returned or raised, the first adapter of the next
\* registered vendor of the plan.
C20_PlanOrder ==
    PlanBuilt =>
        LET slots == [i \in DOMAIN invoked |-> <<invoked[i].pos, invoked[i].impl>>] \o
                     (IF pc = "invoke" THEN << <<idx, impl_idx>> >> ELSE <<>>)
        IN  /\ SubSeq(fallback_vendors, 1, Len(primary_vendors)) = primary_vendors
            /\ slots # <<>> => slots[1] = <<NextRegisteredAfter(0), 1>>
            /\ \A i \in 1..(Len(slots) - 1) :
                  FollowsInOrder(slots[i][1], slots[i][2], slots[i + 1][1], slots[i + 1][2])

\* C20 witness: the three adapters of the first vendor were invoked one after
\* the other, then the adapter of the second vendor, then one further on
C20_Witness ==
    /\ Done /\ PlanBuilt
    /\ Len(invoked) >= 5
    /\ \A i \in 1..3 : invoked[i].pos = 1 /\ invoked[i].impl = i
    /\ invoked[4].pos = 2
    /\ invoked[5].pos > invoked[4].pos

---------------------------------------------------------------------------
(* Properties of a vendor with a list of adapters, and of the arguments *)

\* the number of adapters of the vendor at plan position p
ImplCount(p) == Len(VendorImpl(call.method, fallback_vendors[p]).impls)

\* the log entries of position p, in invocation order
InvokedOf(p) == SelectSeq(invoked, LAMBDA r : r.pos = p)

\* the values returned at position p, in invocation order
ReturnedOf(p) ==
    LET oks == SelectSeq(InvokedOf(p), LAMBDA r : r.res = "ok")
    IN  [i \in DOMAIN oks |-> oks[i].value]

\* the loop is through with position p
VendorFinished(p) ==
    /\ p \in RegisteredPositions
    /\ \/ pc = "invoke" /\ p < idx
       \/ pc = "done" /\ p <= idx

\* C21: for a vendor registered with a list of adapters, once the loop is
\* through with it every adapter of the list was invoked, in list order,
\* whatever the earlier ones did; the vendor was accepted exactly when at
\* least one adapter returned, with the returned values in list order, and
\* these stand in that order in the results.
C21_AdapterList ==
    PlanBuilt =>
        \A p \in DOMAIN fallback_vendors :
            (VendorFinished(p) /\ ImplCount(p) > 1) =>
                LET log == InvokedOf(p)
                    acc == SelectSeq(accepted, LAMBDA a : a.pos = p)
                IN  /\ Len(log) = ImplCount(p)
                    /\ \A i \in DOMAIN log : log[i].impl = i
                    /\ (acc # <<>>) <=> (ReturnedOf(p) # <<>>)
                    /\ Len(acc) <= 1
                    /\ acc # <<>> => acc[1].values = ReturnedOf(p)
                    /\ \E k \in 0..Len(results) :
                          SubSeq(results, k + 1, k + Len(ReturnedOf(p))) = ReturnedOf(p)

\* C21 witness: of the three adapters of one vendor the first raised and the
\* other two returned, and the vendor was accepted with their two values
C21_Witness ==
    /\ Done /\ PlanBuilt
    /\ \E p \in DOMAIN fallback_vendors :
          /\ VendorFinished(p) /\ ImplCount(p) = 3
          /\ Len(InvokedOf(p)) = 3
          /\ InvokedOf(p)[1].res # "ok"
          /\ InvokedOf(p)[2].res = "ok" /\ InvokedOf(p)[3].res = "ok"
          /\ \E k \in DOMAIN accepted : accepted[k].pos = p /\ Len(accepted[k].values) = 2

\* C22: every adapter invoked in a call was called with the positional and
\* keyword arguments of the call itself, the same at every attempt, the
\* symbol as the caller wrote it.
C22_OriginalArguments ==
    PlanBuilt =>
        \A i \in DOMAIN invoked :
            /\ invoked[i].passed.args = call.args
            /\ invoked[i].passed.kwargs = call.kwargs

\* C22 witness: a symbol in lower case with a blank behind it went, as it
\* is, to the adapters of two vendors one after the other
C22_Witness ==
    /\ PlanBuilt
    /\ call.args = << <<"a","a","p","l"," ">> >>
    /\ Len(invoked) >= 2
    /\ invoked[1].pos # invoked[2].pos
    /\ invoked[2].passed.args[1] = <<"a","a","p","l"," ">>

---------------------------------------------------------------------------
(* Further properties of MarketIdentifier *)

MarketOrder == <<"A_STOCK", "HK_STOCK", "US_STOCK">>

\* the markets one of whose patterns matches the normalised symbol
MatchingMarkets(s) ==
    (IF A_STOCK_PATTERNS(s) THEN {"A_STOCK"} ELSE {}) \cup
    (IF HK_STOCK_PATTERNS(s) THEN {"HK_STOCK"} ELSE {}) \cup
    (IF US_STOCK_PATTERNS(s) THEN {"US_STOCK"} ELSE {})

\* C23: identify_market gives the symbol the earliest market, in the order
\* A_STOCK, HK_STOCK, US_STOCK, that has a pattern matching it, and UNKNOWN
\* when no pattern of any market matches.
C23_FirstMarketWins ==
    m_op = "identify" =>
        LET match == MatchingMarkets(StrStrip(StrUpper(m_symbol)))
        IN  IF match = {} THEN m_result = "UNKNOWN"
            ELSE \E k \in DOMAIN MarketOrder :
                    /\ m_result = MarketOrder[k]
                    /\ MarketOrder[k] \in match
                    /\ \A j \in 1..(k - 1) : MarketOrder[j] \notin match

\* C23 witness: digits followed by ".HK", matched by a Hong Kong pattern and
\* by the US digits-dot-letters pattern, classified HK_STOCK
C23_Witness ==
    /\ m_op = "identify"
    /\ m_symbol = <<"0","7","0","0",".","H","k">>
    /\ MatchingMarkets(StrStrip(StrUpper(m_symbol))) = {"HK_STOCK", "US_STOCK"}
    /\ m_result = "HK_STOCK"

---------------------------------------------------------------------------
(* Repeated vendors *)

\* how often the list names the vendor
Occurrences(list, v) == Cardinality({i \in DOMAIN list : list[i] = v})

\* the plan positions of vendor v at which an adapter was invoked
AttemptsOf(v) == {p \in InvokedPositions : fallback_vendors[p] = v}

\* C24 (as claimed): in one call no vendor is attempted at more than one
\* position of the plan, whatever the configuration, and no vendor is
\* accepted twice.
C24_NoVendorTwice ==
    PlanBuilt =>
        /\ \A v \in Range(fallback_vendors) : Cardinality(AttemptsOf(v)) <= 1
        /\ \A i, j \in DOMAIN accepted :
              accepted[i].vendor = accepted[j].vendor => i = j

\* C24 (amended): in one call a vendor is attempted at most as often as the
\* configured list names it, and at most once when the configured list does
\* not name it (the safety net adds a vendor only when it is absent); no
\* adapter of one plan position is invoked twice.
C24_AsOftenAsConfigured ==
    PlanBuilt =>
        /\ \A v \in Range(fallback_vendors) :
              /\ Cardinality(AttemptsOf(v)) <=
                    (IF Contains(primary_vendors, v)
                     THEN Occurrences(primary_vendors, v) ELSE 1)
              /\ Occurrences(fallback_vendors, v) =
                    (IF Contains(primary_vendors, v)
                     THEN Occurrences(primary_vendors, v) ELSE 1)
        /\ \A i, j \in DOMAIN invoked :
              (invoked[i].pos = invoked[j].pos /\ invoked[i].impl = invoked[j].impl)
                  => i = j

\* C24 witness: the configured list names one vendor twice, the vendor was
\* attempted and accepted both times, and the joined result holds its value
\* twice
C24_Witness ==
    /\ Done /\ PlanBuilt
    /\ outcome.kind = "return"
    /\ \E i, j \in DOMAIN accepted :
          /\ i < j
          /\ accepted[i].vendor = accepted[j].vendor
          /\ accepted[i].values = accepted[j].values
    /\ \E v \in Range(primary_vendors) :
          Occurrences(primary_vendors, v) = 2 /\ Cardinality(AttemptsOf(v)) = 2

---------------------------------------------------------------------------
(* market_utils.py : formatting and classification together *)

\* the market of the symbol format_symbol_for_vendor was given
GivenMarket == identify_market(m_symbol)

\* the claim's case: a classified symbol and a vendor supporting its market
ClassifiedAndSupported ==
    /\ m_op = "classify_formatted"
    /\ GivenMarket \in {"A_STOCK", "HK_STOCK", "US_STOCK"}
    /\ Contains(get_supported_markets(m_vendor), GivenMarket)

\* the A-share symbols lines 100-103 and 111-114 give a prefix or a suffix
ExchangeMarked == StartsWithAny(Normalised(m_symbol), SZPrefixes \cup SHPrefixes)

\* C25 (as stated): the symbol format_symbol_for_vendor returns for a
\* classified symbol and a vendor supporting its market is classified as the
\* symbol it was given.
C25_FormatPreservesMarket ==
    ClassifiedAndSupported => m_result = GivenMarket

\* C25 (amended): the returned symbol keeps the classification for akshare,
\* for Hong Kong and US symbols, and for A-share symbols that get no exchange
\* mark; an A-share symbol beginning 000, 002, 003, 30, 60 or 68 becomes
\* UNKNOWN in its baostock form and US_STOCK in its yfinance form.
C25_FormatPreservesMarketExceptMarked ==
    ClassifiedAndSupported =>
        m_result =
            IF GivenMarket = "A_STOCK" /\ ExchangeMarked /\ m_vendor = "baostock"
            THEN "UNKNOWN"
            ELSE IF GivenMarket = "A_STOCK" /\ ExchangeMarked /\ m_vendor = "yfinance"
            THEN "US_STOCK"
            ELSE GivenMarket

\* 600007 for yfinance is 600007.SS, which identify_market takes for a US symbol
C25_Witness ==
    /\ ClassifiedAndSupported
    /\ m_symbol = <<"6", "0", "0", "0", "0", "7">>
    /\ m_vendor = "yfinance"
    /\ m_market = NoneMarket
    /\ m_result = "US_STOCK"

\* C26 (as stated): formatting the symbol format_symbol_for_vendor returned,
\* for the same vendor and the market identified anew, returns it unchanged.
C26_FormatIdempotent ==
    (m_op = "format_again"
        /\ m_vendor \in {"akshare", "baostock", "yfinance", "alpha_vantage"})
    => m_result = m_symbol

\* C26 (amended): the second formatting returns the first result unchanged,
\* except the baostock form sz.<code> or sh.<code>, which comes back in upper
\* case.
C26_FormatIdempotentExceptBaostockPrefix ==
    m_op = "format_again" =>
        m_result =
            IF m_vendor = "baostock"
               /\ StartsWithAny(m_symbol, {<<"s", "z", ".">>, <<"s", "h", ".">>})
            THEN StrUpper(m_symbol)
            ELSE m_symbol

\* sh.600007, the baostock form of 600007, formatted again is SH.600007
C26_Witness ==
    /\ m_op = "format_again"
    /\ m_vendor = "baostock"
    /\ m_symbol = <<"s", "h", ".", "6", "0", "0", "0", "0", "7">>
    /\ m_result = <<"S", "H", ".", "6", "0", "0", "0", "0", "7">>
    /\ m_result # m_symbol

---------------------------------------------------------------------------
(* app_v2.py : TaskManager *)

\* the analysis is running: it has a stop event
Running(tm, a) == a \in DOMAIN tm.active_tasks

\* the running tasks of user u
RunningOf(tm, u) == {a \in DOMAIN tm.active_tasks : Owner(a) = u}

\* the places of a in the global queue (0) and in the users' queues
QueuePlaces(tm, a) ==
    {<<0, i>> : i \in {j \in DOMAIN tm.task_queue :
                          tm.task_queue[j].analysis_id = a}}
    \cup UNION {{<<u, i>> : i \in {j \in DOMAIN tm.user_task_queues[u] :
                                      tm.user_task_queues[u][j].analysis_id = a}}
                : u \in DOMAIN tm.user_task_queues}

InUserQueue(tm, a, u) == InQueue(DictGet(tm.user_task_queues, u, <<>>), a)

\* a is neither running nor waiting
Absent(tm, a) == ~Running(tm, a) /\ QueuePlaces(tm, a) = {}

OneRunningPerUser ==
    \A u \in TaskUsers : Cardinality(RunningOf(task_manager, u)) <= 1

\* a task that appears while its user has a running task is in the user's
\* queue and not running; a task leaves its user's queue for a pool thread
\* only in the step that completes the user's running task
QueuedBehindRunning ==
    \A a \in AnalysisIds :
        LET u == Owner(a)
        IN  /\ (/\ Absent(task_manager, a)
                /\ RunningOf(task_manager, u) # {}
                /\ ~Absent(task_manager', a))
               => (InUserQueue(task_manager', a, u) /\ ~Running(task_manager', a))
            /\ (InUserQueue(task_manager, a, u) /\ Running(task_manager', a))
               => \E b \in RunningOf(task_manager, u) :
                     /\ task_manager.executor[b] = "finished"
                     /\ ~Running(task_manager', b)

\* C27: a user never has two running tasks; a task submitted while its user
\* has a running task waits in that user's queue and is started only when
\* the running task has completed.
C27_OneRunningTaskPerUser ==
    []OneRunningPerUser /\ [][QueuedBehindRunning]_vars

\* user 1's second analysis runs, started from the user's queue by the
\* completion of the first
C27_Witness ==
    /\ Running(task_manager, <<1, 2>>)
    /\ started_from[<<1, 2>>] = "user_queue"
    /\ ~Running(task_manager, <<1, 1>>)
    /\ waiting = {}

\* C28: running_count is the number of entries of active_tasks, lies between
\* 0 and max_workers, and every analysis id is in at most one place: running,
\* or once in one queue.
C28_CountAndPlaces ==
    /\ task_manager.running_count = Cardinality(DOMAIN task_manager.active_tasks)
    /\ task_manager.running_count >= 0
    /\ task_manager.running_count <= task_manager.max_workers
    /\ \A a \in AnalysisIds :
          Cardinality(QueuePlaces(task_manager, a))
              + (IF Running(task_manager, a) THEN 1 ELSE 0) <= 1

\* all workers taken, one task in the global queue and one in a user's queue,
\* after a completion has started a queued task
C28_Witness ==
    /\ task_manager.running_count = task_manager.max_workers
    /\ task_manager.task_queue # <<>>
    /\ \E u \in DOMAIN task_manager.user_task_queues :
          task_manager.user_task_queues[u] # <<>>
    /\ \E a \in DOMAIN started_from : started_from[a] = "user_queue"
    /\ waiting = {}

\* C29: a task in the global queue is eventually started (given that every
\* started task finishes and every callback is run).
C29_GlobalQueueStarted ==
    \A a \in AnalysisIds :
        InQueue(task_manager.task_queue, a) ~> Running(task_manager, a)

\* C30: no thread stays at a `with self.lock` while holding the lock itself.
C30_NoThreadWaitsForItself ==
    \A w \in waiting : task_manager.lock # w.thread

====
